---- MODULE Spec2Model ----
(***************************************************************************)
(* Render-system scheduler of async_ash / rhyolite.                        *)
(*                                                                         *)
(* The module follows RenderSystemsPass::build (src/src/ecs/pass.rs):      *)
(* the render subgraph is extracted from the flattened dependency graph,   *)
(* graph_clustering groups render systems into per-queue clusters stage by *)
(* stage, prelude and submission systems are injected, and the transitive  *)
(* reduction of the cluster graph is realised as timeline dependencies.    *)
(* Afterwards frames run: the host executes the systems in dependency      *)
(* order and every queue node submits with flush_system_graph              *)
(* (src/src/ecs/commands.rs).                                              *)
(*                                                                         *)
(* Conventions.  Systems are numbered 1..Len(systems) (the code's          *)
(* NodeId::System(i) is i+1 here), clusters are numbered 1..k (the code's  *)
(* u32 cluster id c is c+1 here), colours keep the code's numbering from   *)
(* 0.  Graphs are records [nodes |-> sequence in iteration order,          *)
(* edges |-> set of pairs]; neighbours are visited in ascending order.     *)
(***************************************************************************)
EXTENDS Integers, Sequences, FiniteSets, TLC

\* Bounds of the model.
MaxNodes == 3
MaxFrames == 2

\* Queue capabilities 'g', 'c', 't' (commands.rs, IsQueueCap impls).
NumQueues == 3

VARIABLES
    pc,                          \* position inside build() / the frame loop
    systems,                     \* graph.systems: configuration of every system
    dependency_flattened,        \* the host dependency graph
    render_subgraph,             \* dependency_flattened restricted to render systems
    color_to_queue_component_id, \* colour -> queue component id
    heap,                        \* graph_clustering: ready nodes
    heap_next_stage,             \* graph_clustering: deferred nodes
    node_stage_indexes,          \* graph_clustering: node -> stage it was emitted in
    stage_index,                 \* graph_clustering: current stage
    cmd_op_colors,               \* colour -> [buffer, stages] of non-standalone nodes
    queue_op_colors,             \* colour -> [slot, stages] of standalone nodes
    tiny_graph,                  \* per-stage graph on node infos (set of edges)
    current_graph,               \* render graph with emitted nodes removed
    clustered_graph,             \* result: [nodes, edges] over cluster ids
    clustered_graph_info,        \* result: sequence of [info, nodes]
    node_to_clustered_nodes,     \* render node -> cluster id
    queue_nodes,                 \* build(): sequence of QueueNode records
    queue_state,                 \* queue node -> QueueSystemState
    frame,                       \* number of frames begun by the host
    ran,                         \* clusters whose queue node ran in the current frame
    submissions,                 \* cluster -> sequence of queue_submit2 batches
    completed,                   \* cluster -> number of batches the GPU executed
    timeline,                    \* timeline semaphore -> counter value
    flush_pc,                    \* a queue system: "new", "idle" or "ready"
    flush_state,                 \* a queue system: its QueueSystemState
    flush_submits,               \* a queue system: the queue_submit2 calls it made
    record_pc,                   \* CommandPool::record: position of the caller
    pool,                        \* the CommandPool: [raw, generation]
    command_buffer,              \* the CommandBuffer handed to record
    future_log,                  \* what the future did in each poll so far
    submission_status,           \* the GPUFutureSubmissionStatus record returned
    semaphore_value,             \* counter of the command buffer's timeline semaphore
    buffer_pc,                   \* a buffer helper / copy future: position
    buffer_call,                 \* the call that was made and its arguments
    dst_buffer,                  \* helper local: the destination ResidentBuffer
    staging_buffer,              \* helper local: Option<ResidentBuffer>
    copy_future,                 \* the CopyBufferFuture: [src, dst, regions]
    stage_context,               \* StageContext: barriers registered by context()
    copy_commands,               \* cmd_copy_buffer calls recorded so far
    retained,                    \* values retained by the commands! block
    created_buffers,             \* create_resident_buffer calls made so far
    plugin_pc,                   \* the App: "running" or "panicked"
    world,                       \* the App's world: the resources plugin.rs uses
    blas_pc,                     \* build_blas_system: idle, or ran with its commands not yet applied
    blas_entities,               \* entity -> [alive, geometry_count, blas]
    blas_task,                   \* Local<Option<AsyncComputeTask<BuildTask>>>
    blas_commands,               \* Commands queued by the running system
    blas_run,                    \* what the last run of build_blas_system did
    call_result                  \* what the last RhyoliteApp call returned

vars == <<pc, systems, dependency_flattened, render_subgraph,
          color_to_queue_component_id, heap, heap_next_stage,
          node_stage_indexes, stage_index, cmd_op_colors, queue_op_colors,
          tiny_graph, current_graph, clustered_graph, clustered_graph_info,
          node_to_clustered_nodes, queue_nodes, queue_state, frame, ran,
          submissions, completed, timeline, flush_pc, flush_state,
          flush_submits, record_pc, pool, command_buffer, future_log,
          submission_status, semaphore_value, buffer_pc, buffer_call,
          dst_buffer, staging_buffer, copy_future, stage_context,
          copy_commands, retained, created_buffers, plugin_pc, world,
          call_result, blas_pc, blas_entities, blas_task, blas_commands,
          blas_run>>

recordVars == <<record_pc, pool, command_buffer, future_log, submission_status,
                semaphore_value>>

flushVars == <<flush_pc, flush_state, flush_submits>>

buildVars == <<systems, dependency_flattened, queue_nodes, queue_state>>

frameVars == <<frame, ran, submissions, completed, timeline>>

bufferVars == <<buffer_pc, buffer_call, dst_buffer, staging_buffer, copy_future,
                stage_context, copy_commands, retained, created_buffers>>

pluginVars == <<plugin_pc, world, call_result>>

blasVars == <<blas_pc, blas_entities, blas_task, blas_commands, blas_run>>

-----------------------------------------------------------------------------
(* Generic helpers                                                         *)

Range(s) == {s[i] : i \in 1..Len(s)}

RECURSIVE SetToSortedSeq(_)
SetToSortedSeq(S) ==
    IF S = {} THEN <<>>
    ELSE LET m == CHOOSE x \in S : \A y \in S : x <= y
         IN <<m>> \o SetToSortedSeq(S \ {m})

\* Nodes reachable from the set S along edges E (S included).
RECURSIVE ReachFrom(_, _)
ReachFrom(E, S) ==
    LET S2 == S \cup {e[2] : e \in {x \in E : x[1] \in S}}
    IN IF S2 = S THEN S ELSE ReachFrom(E, S2)

\* Is there a non-empty path from a to b ?
Path(E, a, b) == b \in ReachFrom(E, {e[2] : e \in {x \in E : x[1] = a}})

IsAcyclic(E) == \A e \in E : ~ Path(E, e[2], e[1]) /\ e[1] # e[2]

-----------------------------------------------------------------------------
(* The schedule graph (bevy DiGraph as used by pass.rs)                    *)

EmptyGraph == [nodes |-> <<>>, edges |-> {}]

neighbors_incoming(g, n) == {e[1] : e \in {x \in g.edges : x[2] = n}}
neighbors_outgoing(g, n) == {e[2] : e \in {x \in g.edges : x[1] = n}}

\* IndexMap::swap_remove: the last element takes the place of the removed one.
SwapRemove(s, x) ==
    LET i == CHOOSE k \in 1..Len(s) : s[k] = x
    IN [k \in 1..(Len(s) - 1) |-> IF k = i THEN s[Len(s)] ELSE s[k]]

remove_node(g, n) ==
    IF n \in Range(g.nodes)
    THEN [nodes |-> SwapRemove(g.nodes, n),
          edges |-> {e \in g.edges : e[1] # n /\ e[2] # n}]
    ELSE g

AddNodeTo(order, n) == IF n \in Range(order) THEN order ELSE Append(order, n)

add_edge(g, a, b) ==
    [nodes |-> AddNodeTo(AddNodeTo(g.nodes, a), b),
     edges |-> g.edges \cup {<<a, b>>}]

\* Mutant of graph_remove_node_with_transitive_dependency: the node is
\* removed and its parents are not connected to its children.
graph_remove_node_without_dependency(g, node) == remove_node(g, node)

\* pass.rs: remove the node, and add all-pair dependencies between parents
\* and children.
graph_remove_node_with_transitive_dependency(g, node) ==
    remove_node([nodes |-> g.nodes,
                 edges |-> g.edges \cup
                           (neighbors_incoming(g, node) \X neighbors_outgoing(g, node))],
                node)

-----------------------------------------------------------------------------
(* build(): the render subgraph and the colours                            *)

NonRender == [render |-> FALSE, queue_component_id |-> 0, is_standalone |-> FALSE,
              role |-> "user"]

RenderConfigs == [render : {TRUE}, queue_component_id : 1..NumQueues,
                  is_standalone : BOOLEAN, role : {"user"}]

RECURSIVE RenderSubgraphFrom(_, _, _, _)
RenderSubgraphFrom(sys, order, i, g) ==
    IF i > Len(order) THEN g
    ELSE RenderSubgraphFrom(sys, order, i + 1,
            IF sys[order[i]].render THEN g
            ELSE graph_remove_node_with_transitive_dependency(g, order[i]))

RECURSIVE ColorsFrom(_, _, _, _)
ColorsFrom(sys, order, i, acc) ==
    IF i > Len(order) THEN acc
    ELSE LET s == sys[order[i]]
         IN ColorsFrom(sys, order, i + 1,
                IF s.render /\ s.queue_component_id \notin Range(acc)
                THEN Append(acc, s.queue_component_id)
                ELSE acc)

queue_component_id_to_color(q) ==
    (CHOOSE k \in 1..Len(color_to_queue_component_id) :
        color_to_queue_component_id[k] = q) - 1

num_colors == Len(color_to_queue_component_id)

Colors == 0..(num_colors - 1)

\* The closure handed to graph_clustering.
get_node_info(node) ==
    [color |-> queue_component_id_to_color(systems[node].queue_component_id),
     is_standalone |-> systems[node].is_standalone]

-----------------------------------------------------------------------------
(* graph_clustering                                                        *)

\* First, find all nodes with no incoming edges.
InitialHeap(g) ==
    SelectSeq(g.nodes, LAMBDA n : neighbors_incoming(g, n) = {})

\* Mutant of has_path: the walk starts at the parent and looks for the node.
has_path_from_parent(T, from, to) == from \in ReachFrom(T, {to})

\* Dfs::new(&tiny_graph, from).iter(&tiny_graph).any(|x| x == to)
has_path(T, from, to) == to \in ReachFrom(T, {from})

\* Mutant of should_defer: only the standalone rule defers, the walk over the
\* tiny graph is missing.
should_defer_standalone_only(node) ==
    LET node_info == get_node_info(node)
    IN /\ node_info.is_standalone
       /\ queue_op_colors[node_info.color].slot # 0

\* Mutant of should_defer: the test of the standalone slot is missing.
should_defer_paths_only(node) ==
    LET node_info == get_node_info(node)
    IN \E parent \in neighbors_incoming(render_subgraph, node) :
          /\ get_node_info(parent) # node_info
          /\ has_path(tiny_graph, node_info, get_node_info(parent))

\* Mutant of should_defer: a node also waits for the next stage when one of
\* its parents was emitted in the current stage.
should_defer_same_stage_parent(node) ==
    LET node_info == get_node_info(node)
    IN \/ /\ node_info.is_standalone
          /\ queue_op_colors[node_info.color].slot # 0
       \/ \E parent \in neighbors_incoming(render_subgraph, node) :
             \/ node_stage_indexes[parent] = stage_index
             \/ /\ get_node_info(parent) # node_info
                /\ has_path(tiny_graph, node_info, get_node_info(parent))

should_defer(node) ==
    LET node_info == get_node_info(node)
    IN \/ /\ node_info.is_standalone
          /\ queue_op_colors[node_info.color].slot # 0
       \/ \E parent \in neighbors_incoming(render_subgraph, node) :
             /\ get_node_info(parent) # node_info
             /\ has_path(tiny_graph, node_info, get_node_info(parent))

\* Edges added to the tiny graph when node is emitted.
TinyGraphUpdate(node) ==
    LET node_info == get_node_info(node)
    IN {<<get_node_info(parent), node_info>> :
          parent \in {p \in neighbors_incoming(render_subgraph, node) :
                        /\ get_node_info(p).color # node_info.color
                        /\ node_stage_indexes[p] = stage_index}}

\* Children of node whose only remaining parent is node, in visiting order.
ReadyChildren(node) ==
    SetToSortedSeq({child \in neighbors_outgoing(current_graph, node) :
                      Cardinality(neighbors_incoming(current_graph, child)) = 1})

\* Mutant of FlushCmd: the buffer is pushed to the stages but not taken.
FlushCmdKeepsBuffer(cmd) ==
    [c \in DOMAIN cmd |->
        IF cmd[c].buffer # <<>>
        THEN [buffer |-> cmd[c].buffer,
              stages |-> Append(cmd[c].stages, cmd[c].buffer)]
        ELSE cmd[c]]

FlushCmd(cmd) ==
    [c \in DOMAIN cmd |->
        IF cmd[c].buffer # <<>>
        THEN [buffer |-> <<>>, stages |-> Append(cmd[c].stages, cmd[c].buffer)]
        ELSE cmd[c]]

\* Mutant of FlushQueue: the slot is pushed to the stages but not taken.
FlushQueueKeepsSlot(q) ==
    [c \in DOMAIN q |->
        IF q[c].slot # 0
        THEN [slot |-> q[c].slot, stages |-> Append(q[c].stages, q[c].slot)]
        ELSE q[c]]

FlushQueue(q) ==
    [c \in DOMAIN q |->
        IF q[c].slot # 0
        THEN [slot |-> 0, stages |-> Append(q[c].stages, q[c].slot)]
        ELSE q[c]]

\* Mutant of EmitCmd: standalone nodes are buffered with the others.
EmitCmdAnyNode(cmd, node) ==
    [cmd EXCEPT ![get_node_info(node).color].buffer = Append(@, node)]

EmitCmd(cmd, node) ==
    LET c == get_node_info(node).color
    IN IF get_node_info(node).is_standalone THEN cmd
       ELSE [cmd EXCEPT ![c].buffer = Append(@, node)]

EmitQueue(q, node) ==
    LET c == get_node_info(node).color
    IN IF get_node_info(node).is_standalone
       THEN [q EXCEPT ![c].slot = node]
       ELSE q

RECURSIVE ConcatColors(_, _)
ConcatColors(f, c) ==
    IF c >= num_colors THEN <<>> ELSE f[c] \o ConcatColors(f, c + 1)

\* "Flush standalone nodes": one cluster per standalone node.
StandaloneClusters ==
    ConcatColors(
        [c \in Colors |->
            LET stages == FlushQueue(queue_op_colors)[c].stages
            IN [k \in 1..Len(stages) |->
                   [info |-> get_node_info(stages[k]), nodes |-> <<stages[k]>>]]],
        0)

\* "Flush clustered nodes": one cluster per stage buffer of a colour.
CmdClusters ==
    ConcatColors(
        [c \in Colors |->
            LET stages == FlushCmd(cmd_op_colors)[c].stages
            IN [k \in 1..Len(stages) |->
                   [info |-> get_node_info(stages[k][1]), nodes |-> stages[k]]]],
        0)

NodeToCluster(info) ==
    LET all == UNION {Range(info[k].nodes) : k \in 1..Len(info)}
    IN [n \in all |->
           CHOOSE k \in 1..Len(info) :
              /\ n \in Range(info[k].nodes)
              /\ \A j \in 1..Len(info) : n \in Range(info[j].nodes) => j <= k]

\* Mutant of ClusterEdges: the from != to test is missing.
ClusterEdgesUnchecked(g, map) ==
    {<<map[e[1]], map[e[2]]>> : e \in g.edges}

\* Mutant of ClusterEdges: the edge is added from the cluster of the target
\* to the cluster of the source.
ClusterEdgesReversed(g, map) ==
    {<<map[e[2]], map[e[1]]>> : e \in {x \in g.edges : map[x[1]] # map[x[2]]}}

\* "clustered graph connectivity"
ClusterEdges(g, map) ==
    {<<map[e[1]], map[e[2]]>> : e \in {x \in g.edges : map[x[1]] # map[x[2]]}}

-----------------------------------------------------------------------------
(* Inputs of build(): a flattened acyclic dependency graph over the        *)
(* systems 1..n.  Queue component ids are opaque, so inputs are enumerated *)
(* up to renaming: ids first appear in increasing order.                   *)

Canonical(cfg) ==
    \A i \in DOMAIN cfg :
        cfg[i].render =>
            \/ cfg[i].queue_component_id = 1
            \/ \E j \in 1..(i - 1) :
                  /\ cfg[j].render
                  /\ cfg[j].queue_component_id >= cfg[i].queue_component_id - 1

Inputs(n) ==
    {e \in SUBSET {p \in (1..n) \X (1..n) : p[1] # p[2]} : IsAcyclic(e)}
        \X {f \in [1..n -> RenderConfigs \cup {NonRender}] : Canonical(f)}

\* QueueContext::init_state: the state of a queue system before any
\* configuration.
QueueContext_init_state ==
    [frame_index |-> 0,
     binary_signals |-> <<>>,
     binary_waits |-> <<>>,
     timeline_signals |-> <<>>,
     timeline_waits |-> <<>>]

\* GPUFutureContext with no pending barrier.
EmptyContext ==
    [image_barrier |-> <<>>,
     memory_barrier |-> [src |-> {}, dst |-> {}]]

\* No command buffer has been begun yet.
NullCommandBuffer ==
    [pool |-> "null", generation |-> 0, signal_value |-> 0,
     timeline_semaphore |-> "none",
     future_ctx |-> EmptyContext, commands |-> <<>>]

\* No GPUFutureSubmissionStatus has been returned yet.
NullStatus ==
    [return_value |-> "none", retained_values |-> "none",
     timeline_semaphore |-> "none", wait_value |-> 0]

\* The schedule before the pass has run, and a queue system before it is
\* configured.
\* No buffer helper has been called.
NoCall == [fn |-> "none"]

\* None of Option<ResidentBuffer>.
NoBuffer == [size |-> 0]

\* No CopyBufferFuture exists.
NoFuture == [src |-> "none", dst |-> "none"]

\* A StageContext with no barrier registered.
EmptyStageContext == [barriers |-> {}]

\* The world of a new App: none of the resources exists.
EmptyWorld ==
    [Instance |-> [is_some |-> FALSE],
     InstanceExtensions |-> [is_some |-> FALSE],
     InstanceLayers |-> [is_some |-> FALSE],
     DeviceExtensions |-> [is_some |-> FALSE]]

\* No RhyoliteApp call has been made.
NoResult == [call |-> "none", arg |-> "none", result |-> "none"]

MaxEntities == 2
MaxGeometries == 2

\* The entity ids the world may hold.
Entities == 1..MaxEntities

\* An entity that has not been spawned.
NoEntity == [alive |-> FALSE, geometry_count |-> 0, blas |-> [is_some |-> FALSE]]

\* No build task: the Local<Option<..>> is None.
NoTask == [is_some |-> FALSE]

\* build_blas_system has not run yet.
NoRun == [outcome |-> "none", infos |-> <<>>, should_update |-> {}]

Init ==
    /\ pc = "start"
    /\ systems = <<>>
    /\ dependency_flattened = EmptyGraph
    /\ render_subgraph = EmptyGraph
    /\ color_to_queue_component_id = <<>>
    /\ heap = <<>>
    /\ heap_next_stage = <<>>
    /\ node_stage_indexes = <<>>
    /\ stage_index = 0
    /\ cmd_op_colors = <<>>
    /\ queue_op_colors = <<>>
    /\ tiny_graph = {}
    /\ current_graph = EmptyGraph
    /\ clustered_graph = [nodes |-> {}, edges |-> {}]
    /\ clustered_graph_info = <<>>
    /\ node_to_clustered_nodes = <<>>
    /\ queue_nodes = <<>>
    /\ queue_state = <<>>
    /\ frame = 0
    /\ ran = {}
    /\ submissions = <<>>
    /\ completed = <<>>
    /\ timeline = <<>>
    /\ flush_pc = "new"
    /\ flush_state = QueueContext_init_state
    /\ flush_submits = <<>>
    /\ record_pc = "no_buffer"
    /\ pool = [raw |-> "pool", generation |-> 0]
    /\ command_buffer = NullCommandBuffer
    /\ future_log = <<>>
    /\ submission_status = NullStatus
    /\ semaphore_value = 0
    /\ buffer_pc = "idle"
    /\ buffer_call = NoCall
    /\ dst_buffer = NoBuffer
    /\ staging_buffer = NoBuffer
    /\ copy_future = NoFuture
    /\ stage_context = EmptyStageContext
    /\ copy_commands = <<>>
    /\ retained = <<>>
    /\ created_buffers = <<>>
    /\ plugin_pc = "running"
    /\ world = EmptyWorld
    /\ call_result = NoResult
    /\ blas_pc = "idle"
    /\ blas_entities = [e \in Entities |-> NoEntity]
    /\ blas_task = NoTask
    /\ blas_commands = <<>>
    /\ blas_run = NoRun

-----------------------------------------------------------------------------
(* Actions                                                                 *)

\* build() is called with the systems and their flattened dependency graph;
\* lines 87-111: render subgraph and colour assignment.
ExtractRenderGraph ==
    /\ pc = "start"
    /\ \E n \in 0..MaxNodes : \E input \in Inputs(n) :
          LET graph == [nodes |-> [i \in 1..n |-> i], edges |-> input[1]]
          IN /\ systems' = input[2]
             /\ dependency_flattened' = graph
             /\ render_subgraph' = RenderSubgraphFrom(input[2], graph.nodes, 1, graph)
             /\ color_to_queue_component_id' =
                   ColorsFrom(input[2], graph.nodes, 1, <<>>)
    /\ pc' = "extracted"
    /\ UNCHANGED <<heap, heap_next_stage,
                   node_stage_indexes, stage_index, cmd_op_colors,
                   queue_op_colors, tiny_graph, current_graph, clustered_graph,
                   clustered_graph_info, node_to_clustered_nodes, queue_nodes,
                   queue_state, frameVars, flushVars, recordVars,
                   bufferVars, pluginVars,
                   blasVars>>

\* graph_clustering, lines 345-368: the locals before the loop.
ClusteringBegin ==
    /\ pc = "extracted"
    /\ heap' = InitialHeap(render_subgraph)
    /\ heap_next_stage' = <<>>
    /\ node_stage_indexes' = <<>>
    /\ stage_index' = 0
    /\ cmd_op_colors' = [c \in Colors |-> [buffer |-> <<>>, stages |-> <<>>]]
    /\ queue_op_colors' = [c \in Colors |-> [slot |-> 0, stages |-> <<>>]]
    /\ tiny_graph' = {}
    /\ current_graph' = render_subgraph
    /\ pc' = "clustering"
    /\ UNCHANGED <<systems, dependency_flattened, render_subgraph,
                   color_to_queue_component_id, clustered_graph,
                   clustered_graph_info, node_to_clustered_nodes, queue_nodes,
                   queue_state, frameVars, flushVars, recordVars,
                   bufferVars, pluginVars,
                   blasVars>>

\* graph_clustering, lines 369-445: one iteration of the while loop.
ClusteringStep ==
    /\ pc = "clustering"
    /\ heap # <<>>
    /\ LET node == heap[Len(heap)]
           popped == SubSeq(heap, 1, Len(heap) - 1)
           defer == should_defer(node)
           heap1 == IF defer THEN popped ELSE popped \o ReadyChildren(node)
           next1 == IF defer THEN Append(heap_next_stage, node) ELSE heap_next_stage
           cmd1 == IF defer THEN cmd_op_colors ELSE EmitCmd(cmd_op_colors, node)
           queue1 == IF defer THEN queue_op_colors ELSE EmitQueue(queue_op_colors, node)
           tiny1 == IF defer THEN tiny_graph ELSE tiny_graph \cup TinyGraphUpdate(node)
       IN /\ node_stage_indexes' =
                IF defer THEN node_stage_indexes
                ELSE (node :> stage_index) @@ node_stage_indexes
          /\ current_graph' =
                IF defer THEN current_graph ELSE remove_node(current_graph, node)
          /\ IF heap1 = <<>>
             THEN /\ cmd_op_colors' = FlushCmd(cmd1)
                  /\ queue_op_colors' = FlushQueue(queue1)
                  /\ stage_index' = stage_index + 1
                  /\ tiny_graph' = {}
                  /\ heap' = next1
                  /\ heap_next_stage' = heap1
             ELSE /\ cmd_op_colors' = cmd1
                  /\ queue_op_colors' = queue1
                  /\ stage_index' = stage_index
                  /\ tiny_graph' = tiny1
                  /\ heap' = heap1
                  /\ heap_next_stage' = next1
    /\ UNCHANGED <<pc, systems, dependency_flattened, render_subgraph,
                   color_to_queue_component_id, clustered_graph,
                   clustered_graph_info, node_to_clustered_nodes, queue_nodes,
                   queue_state, frameVars, flushVars, recordVars,
                   bufferVars, pluginVars,
                   blasVars>>

\* graph_clustering, lines 447-506: the loop has ended, build the result.
ClusteringFinish ==
    /\ pc = "clustering"
    /\ heap = <<>>
    /\ LET info == StandaloneClusters \o CmdClusters
           map == NodeToCluster(info)
       IN /\ clustered_graph_info' = info
          /\ node_to_clustered_nodes' = map
          /\ clustered_graph' = [nodes |-> 1..Len(info),
                                 edges |-> ClusterEdges(render_subgraph, map)]
    /\ pc' = "clustered"
    /\ UNCHANGED <<systems, dependency_flattened, render_subgraph,
                   color_to_queue_component_id, heap, heap_next_stage,
                   node_stage_indexes, stage_index, cmd_op_colors,
                   queue_op_colors, tiny_graph, current_graph, queue_nodes,
                   queue_state, frameVars, flushVars, recordVars,
                   bufferVars, pluginVars,
                   blasVars>>

-----------------------------------------------------------------------------
(* build(): prelude / submission systems and timeline dependencies         *)

PreludeSystem(q) ==
    [render |-> FALSE, queue_component_id |-> q, is_standalone |-> FALSE,
     role |-> "prelude"]

SubmissionSystem(q) ==
    [render |-> FALSE, queue_component_id |-> q, is_standalone |-> FALSE,
     role |-> "submission"]

\* Mutant of add_member_edges: the edge to the submission system is reversed.
add_member_edges_reversed(g, prelude_system_id, node, submission_system_id) ==
    add_edge(add_edge(g, prelude_system_id, node), submission_system_id, node)

\* "for all nodes, they run before submission system and after prelude systems"
add_member_edges(g, prelude_system_id, node, submission_system_id) ==
    add_edge(add_edge(g, prelude_system_id, node), node, submission_system_id)

RECURSIVE AddMemberEdgesFrom(_, _, _, _, _)
AddMemberEdgesFrom(g, nodes, i, prelude_system_id, submission_system_id) ==
    IF i > Len(nodes) THEN g
    ELSE AddMemberEdgesFrom(
            add_member_edges(g, prelude_system_id, nodes[i], submission_system_id),
            nodes, i + 1, prelude_system_id, submission_system_id)

\* Mutant of Timeline_new: one timeline is created before the closure and
\* every cluster receives a clone of it.
Timeline_new_hoisted(k) == 1

\* Arc::new(Timeline::new(device.clone()).unwrap()) inside the closure: the
\* k-th call returns a fresh timeline, named by the cluster it is created for.
Timeline_new(k) == k

\* The closure of queue_nodes.into_iter().map(..), applied to clusters k, k+1, ...
RECURSIVE QueueNodesFrom(_, _, _, _, _)
QueueNodesFrom(info, k, sys, dep, qn) ==
    IF k > Len(info)
    THEN [systems |-> sys, dependency_flattened |-> dep, queue_nodes |-> qn]
    ELSE
      LET n == info[k]
          queue_component_id == color_to_queue_component_id[n.info.color + 1]
          timeline_dependencies == [this |-> Timeline_new(k), dependencies |-> <<>>]
      IN IF n.info.is_standalone
         THEN QueueNodesFrom(info, k + 1, sys, dep,
                 Append(qn, [queue_component_id |-> queue_component_id,
                             info |-> n.info,
                             nodes |-> n.nodes,
                             queue_node |-> n.nodes[1],
                             timeline_dependencies |-> timeline_dependencies]))
         ELSE
           LET prelude_system_id == Len(sys) + 1
               submission_system_id == Len(sys) + 2
           IN QueueNodesFrom(info, k + 1,
                 sys \o <<PreludeSystem(queue_component_id),
                          SubmissionSystem(queue_component_id)>>,
                 AddMemberEdgesFrom(dep, n.nodes, 1, prelude_system_id,
                                    submission_system_id),
                 Append(qn, [queue_component_id |-> queue_component_id,
                             info |-> n.info,
                             nodes |-> n.nodes \o <<prelude_system_id,
                                                    submission_system_id>>,
                             queue_node |-> submission_system_id,
                             timeline_dependencies |-> timeline_dependencies]))

\* Mutant of TransitiveReduction: every edge of the queue graph is kept.
TransitiveReduction_none(E) == E

\* petgraph dag_transitive_reduction_closure: the reduction of a DAG.
TransitiveReduction(E) ==
    {e \in E : ~ \E w \in {x[1] : x \in E} :
                    w # e[1] /\ w # e[2] /\ Path(E, e[1], w) /\ Path(E, w, e[2])}

\* Mutant of TimelineDependenciesOf: every timeline is pushed twice.
TimelineDependenciesOf_twice(reduction, dst) ==
    LET srcs == SetToSortedSeq({e[1] : e \in {x \in reduction : x[2] = dst}})
    IN [i \in 1..(2 * Len(srcs)) |->
           [timeline |-> queue_nodes[srcs[((i - 1) % Len(srcs)) + 1]].timeline_dependencies.this,
            stage |-> "ALL_COMMANDS"]]

\* Mutant of TimelineDependenciesOf: edges between clusters of one queue
\* push no timeline.
TimelineDependenciesOf_other_queues(reduction, dst) ==
    LET srcs == SetToSortedSeq({e[1] : e \in {x \in reduction :
                    /\ x[2] = dst
                    /\ queue_nodes[x[1]].queue_component_id
                          # queue_nodes[dst].queue_component_id}})
    IN [i \in 1..Len(srcs) |->
           [timeline |-> queue_nodes[srcs[i]].timeline_dependencies.this,
            stage |-> "ALL_COMMANDS"]]

\* The timelines pushed onto the dependencies of cluster dst, one per edge
\* of the reduction that ends in dst.
TimelineDependenciesOf(reduction, dst) ==
    LET srcs == SetToSortedSeq({e[1] : e \in {x \in reduction : x[2] = dst}})
    IN [i \in 1..Len(srcs) |->
           [timeline |-> queue_nodes[srcs[i]].timeline_dependencies.this,
            stage |-> "ALL_COMMANDS"]]

\* Mutant of QueueNodeEdges: the host edge runs from the end node to the
\* start node.
QueueNodeEdgesReversed(reduction) ==
    {<<queue_nodes[e[2]].queue_node, queue_nodes[e[1]].queue_node>> : e \in reduction}

\* Host edges between the queue nodes of the clusters of an edge.
QueueNodeEdges(reduction) ==
    {<<queue_nodes[e[1]].queue_node, queue_nodes[e[2]].queue_node>> : e \in reduction}

\* set_configs with a QueueSystemInitialState.
set_configs_initial(state, initial_state) ==
    [state EXCEPT !.timeline_signals = initial_state.timeline_signals,
                  !.timeline_waits = initial_state.timeline_waits]

\* QueueContext::init_state followed by the timeline dependencies the pass
\* hands to the queue node.
init_state(timeline_dependencies) ==
    [frame_index |-> 0,
     binary_signals |-> <<>>,
     binary_waits |-> <<>>,
     timeline_signals |-> <<timeline_dependencies.this>>,
     timeline_waits |-> [i \in 1..Len(timeline_dependencies.dependencies) |->
                            timeline_dependencies.dependencies[i].timeline]]

-----------------------------------------------------------------------------
(* Frames: flush_system_graph and the GPU                                   *)

\* Mutant of flush_signal_value: timeline signals carry the value 0 that the
\* binary semaphores carry.
flush_signal_value_zero(state) == 0

\* The value of the timeline entries of semaphore_signals.
flush_signal_value(state) == state.frame_index

\* Mutant of flush_wait_value: the wait names the value of the next frame.
flush_wait_value_next(state) == state.frame_index + 1

\* Mutant of flush_wait_value: the wait names the value of the previous frame.
flush_wait_value_previous(state) == state.frame_index - 1

\* The value of the timeline entries of semaphore_waits.
flush_wait_value(state) == state.frame_index

\* Mutant of flush_system_graph: the wait list is built from the timeline
\* waits alone and the binary waits are dropped.
flush_system_graph_no_binary_waits(state) ==
    [signals |->
        [i \in 1..Len(state.binary_signals) |->
            [kind |-> "binary", semaphore |-> state.binary_signals[i], value |-> 0]]
        \o [i \in 1..Len(state.timeline_signals) |->
            [kind |-> "timeline", semaphore |-> state.timeline_signals[i],
             value |-> flush_signal_value(state)]],
     waits |->
        [i \in 1..Len(state.timeline_waits) |->
            [kind |-> "timeline", semaphore |-> state.timeline_waits[i],
             value |-> flush_wait_value(state)]],
     command_buffers |-> 1]

flush_system_graph(state) ==
    [signals |->
        [i \in 1..Len(state.binary_signals) |->
            [kind |-> "binary", semaphore |-> state.binary_signals[i], value |-> 0]]
        \o [i \in 1..Len(state.timeline_signals) |->
            [kind |-> "timeline", semaphore |-> state.timeline_signals[i],
             value |-> flush_signal_value(state)]],
     waits |->
        [i \in 1..Len(state.binary_waits) |->
            [kind |-> "binary", semaphore |-> state.binary_waits[i], value |-> 0]]
        \o [i \in 1..Len(state.timeline_waits) |->
            [kind |-> "timeline", semaphore |-> state.timeline_waits[i],
             value |-> flush_wait_value(state)]],
     command_buffers |-> 1]

\* set_configs with a QueueSystemStateUpdate.
set_configs_update(state, update) ==
    [state EXCEPT !.binary_signals = update.binary_signals,
                  !.binary_waits = update.binary_waits,
                  !.frame_index = update.frame_index]

\* The update the host stamps on every queue node when frame f begins.
FrameUpdate(f) == [frame_index |-> f, binary_signals |-> <<>>, binary_waits |-> <<>>]

QueueNodeIds == {queue_nodes[k].queue_node : k \in 1..Len(queue_nodes)}

ClusterOfQueueNode(s) == CHOOSE k \in 1..Len(queue_nodes) : queue_nodes[k].queue_node = s

\* A wait is satisfied once the semaphore's counter has reached its value.
WaitSatisfied(w) == w.kind = "timeline" => timeline[w.semaphore] >= w.value

ApplySignals(tl, signals) ==
    [t \in DOMAIN tl |->
        IF \E i \in 1..Len(signals) :
              signals[i].kind = "timeline" /\ signals[i].semaphore = t
        THEN LET i == CHOOSE j \in 1..Len(signals) :
                         signals[j].kind = "timeline" /\ signals[j].semaphore = t
             IN signals[i].value
        ELSE tl[t]]

-----------------------------------------------------------------------------
(* Actions of build() after clustering, and of the frame loop              *)

\* build(), lines 134-250: queue nodes, prelude and submission systems.
InjectSystems ==
    /\ pc = "clustered"
    /\ LET r == QueueNodesFrom(clustered_graph_info, 1, systems,
                               dependency_flattened, <<>>)
       IN /\ systems' = r.systems
          /\ dependency_flattened' = r.dependency_flattened
          /\ queue_nodes' = r.queue_nodes
    /\ pc' = "injected"
    /\ UNCHANGED <<render_subgraph, color_to_queue_component_id, heap,
                   heap_next_stage, node_stage_indexes, stage_index,
                   cmd_op_colors, queue_op_colors, tiny_graph, current_graph,
                   clustered_graph, clustered_graph_info,
                   node_to_clustered_nodes, queue_state, frameVars, flushVars, recordVars,
                   bufferVars, pluginVars,
                   blasVars>>

\* build(), line 253: toposort(..).unwrap() on a cyclic cluster graph.
BuildPanics ==
    /\ pc = "injected"
    /\ ~ IsAcyclic(clustered_graph.edges)
    /\ pc' = "panicked"
    /\ UNCHANGED <<systems, dependency_flattened, render_subgraph,
                   color_to_queue_component_id, heap, heap_next_stage,
                   node_stage_indexes, stage_index, cmd_op_colors,
                   queue_op_colors, tiny_graph, current_graph, clustered_graph,
                   clustered_graph_info, node_to_clustered_nodes, queue_nodes,
                   queue_state, frameVars, flushVars, recordVars,
                   bufferVars, pluginVars,
                   blasVars>>

\* build(), lines 252-283: reduction, host edges, timeline dependencies.
WireTimelines ==
    /\ pc = "injected"
    /\ IsAcyclic(clustered_graph.edges)
    /\ LET reduction == TransitiveReduction(clustered_graph.edges)
           wired == [k \in 1..Len(queue_nodes) |->
                        [queue_nodes[k] EXCEPT
                            !.timeline_dependencies.dependencies =
                                TimelineDependenciesOf(reduction, k)]]
       IN /\ queue_nodes' = wired
          /\ dependency_flattened' =
                [nodes |-> dependency_flattened.nodes,
                 edges |-> dependency_flattened.edges \cup QueueNodeEdges(reduction)]
          /\ queue_state' =
                [s \in QueueNodeIds |->
                    init_state(wired[ClusterOfQueueNode(s)].timeline_dependencies)]
          /\ submissions' = [k \in 1..Len(queue_nodes) |-> <<>>]
          /\ completed' = [k \in 1..Len(queue_nodes) |-> 0]
          /\ timeline' = [k \in 1..Len(queue_nodes) |-> 0]
    /\ pc' = "built"
    /\ UNCHANGED <<systems, render_subgraph, color_to_queue_component_id, heap,
                   heap_next_stage, node_stage_indexes, stage_index,
                   cmd_op_colors, queue_op_colors, tiny_graph, current_graph,
                   clustered_graph, clustered_graph_info,
                   node_to_clustered_nodes, frame, ran, flushVars, recordVars,
                   bufferVars, pluginVars,
                   blasVars>>

clusteringVarsRest == <<render_subgraph, color_to_queue_component_id, heap,
                        heap_next_stage, node_stage_indexes, stage_index,
                        cmd_op_colors, queue_op_colors, tiny_graph,
                        current_graph, clustered_graph, clustered_graph_info,
                        node_to_clustered_nodes>>

clusteringVars == <<pc, render_subgraph, color_to_queue_component_id, heap,
                    heap_next_stage, node_stage_indexes, stage_index,
                    cmd_op_colors, queue_op_colors, tiny_graph, current_graph,
                    clustered_graph, clustered_graph_info,
                    node_to_clustered_nodes>>

\* The host begins frame f+1 once every system of frame f has run, and
\* stamps the frame index on every queue node.
BeginFrame ==
    /\ pc = "built"
    /\ frame < MaxFrames
    /\ frame = 0 \/ ran = DOMAIN queue_nodes
    /\ frame' = frame + 1
    /\ ran' = {}
    /\ queue_state' = [s \in DOMAIN queue_state |->
                          set_configs_update(queue_state[s], FrameUpdate(frame + 1))]
    /\ UNCHANGED <<clusteringVars, systems, dependency_flattened, queue_nodes,
                   submissions, completed, timeline, flushVars, recordVars,
                   bufferVars, pluginVars,
                   blasVars>>

\* The host executor runs a queue node once every queue node that precedes
\* it in dependency_flattened has run in this frame; the queue node submits
\* its batch with flush_system_graph.  (Systems that submit nothing are not
\* stepped: they only relay the order between queue nodes.)
RunQueueNode(c) ==
    /\ pc = "built"
    /\ frame >= 1
    /\ c \in DOMAIN queue_nodes
    /\ c \notin ran
    /\ \A d \in DOMAIN queue_nodes :
          Path(dependency_flattened.edges, queue_nodes[d].queue_node,
               queue_nodes[c].queue_node) => d \in ran
    /\ ran' = ran \cup {c}
    /\ submissions' =
          [submissions EXCEPT ![c] =
              Append(@, flush_system_graph(queue_state[queue_nodes[c].queue_node]))]
    /\ UNCHANGED <<clusteringVars, buildVars, frame, completed, timeline, flushVars, recordVars,
                   bufferVars, pluginVars,
                   blasVars>>

\* The GPU executes the oldest pending batch of a cluster once all the
\* timeline values it waits for have been signalled.
Execute(c) ==
    /\ pc = "built"
    /\ c \in DOMAIN submissions
    /\ completed[c] < Len(submissions[c])
    /\ LET batch == submissions[c][completed[c] + 1]
       IN /\ \A i \in 1..Len(batch.waits) : WaitSatisfied(batch.waits[i])
          /\ timeline' = ApplySignals(timeline, batch.signals)
    /\ completed' = [completed EXCEPT ![c] = @ + 1]
    /\ UNCHANGED <<clusteringVars, buildVars, frame, ran, submissions, flushVars, recordVars,
                   bufferVars, pluginVars,
                   blasVars>>

Next ==
    \/ ExtractRenderGraph
    \/ ClusteringBegin
    \/ ClusteringStep
    \/ ClusteringFinish
    \/ InjectSystems
    \/ BuildPanics
    \/ WireTimelines

\* The schedule build alone.
Spec == Init /\ [][Next]_vars

\* graph_clustering is sequential code: the loop keeps iterating while the
\* heap is not empty and the function returns once it is.
FairSpec == Spec /\ WF_vars(ClusteringStep) /\ WF_vars(ClusteringFinish)

FrameNext ==
    \/ Next
    \/ BeginFrame
    \/ \E c \in 1..MaxNodes : RunQueueNode(c)
    \/ \E c \in 1..MaxNodes : Execute(c)

\* The schedule build followed by frames.
FrameSpec == Init /\ [][FrameNext]_vars

\* The GPU executes every batch whose waits are satisfied; the host may stop
\* submitting at any time.
FairFrameSpec ==
    /\ FrameSpec
    /\ \A c \in 1..MaxNodes : WF_vars(Execute(c))

-----------------------------------------------------------------------------
(* build() on a chain of four systems                                       *)

\* Four non-standalone systems a -> b -> c -> d whose queues alternate, under
\* every numbering of the systems, every pair of queues, and with or without
\* the redundant edges a -> c, b -> d, a -> d.
ChainInputsOf(o) ==
    {<<{<<o[1], o[2]>>, <<o[2], o[3]>>, <<o[3], o[4]>>} \cup extra,
       [i \in 1..4 |->
           [render |-> TRUE,
            queue_component_id |-> IF i \in {o[1], o[3]} THEN q[1] ELSE q[2],
            is_standalone |-> FALSE,
            role |-> "user"]]>> :
        q \in {x \in (1..NumQueues) \X (1..NumQueues) : x[1] # x[2]},
        extra \in SUBSET {<<o[1], o[3]>>, <<o[2], o[4]>>, <<o[1], o[4]>>}}

ChainInputs ==
    UNION {ChainInputsOf(o) :
             o \in {f \in [1..4 -> 1..4] : \A i, j \in 1..4 : f[i] = f[j] => i = j}}

\* build() is called with a chain; lines 87-111 as in ExtractRenderGraph.
ExtractChain ==
    /\ pc = "start"
    /\ \E input \in ChainInputs :
          LET graph == [nodes |-> [i \in 1..4 |-> i], edges |-> input[1]]
          IN /\ systems' = input[2]
             /\ dependency_flattened' = graph
             /\ render_subgraph' = RenderSubgraphFrom(input[2], graph.nodes, 1, graph)
             /\ color_to_queue_component_id' =
                   ColorsFrom(input[2], graph.nodes, 1, <<>>)
    /\ pc' = "extracted"
    /\ UNCHANGED <<heap, heap_next_stage,
                   node_stage_indexes, stage_index, cmd_op_colors,
                   queue_op_colors, tiny_graph, current_graph, clustered_graph,
                   clustered_graph_info, node_to_clustered_nodes, queue_nodes,
                   queue_state, frameVars, flushVars, recordVars,
                   bufferVars, pluginVars,
                   blasVars>>

ChainNext ==
    \/ ExtractChain
    \/ ClusteringBegin
    \/ ClusteringStep
    \/ ClusteringFinish
    \/ InjectSystems
    \/ WireTimelines

\* The schedule build on the chains of four systems.
ChainSpec == Init /\ [][ChainNext]_vars

-----------------------------------------------------------------------------
(* One queue system on its own: set_configs and flush_system_graph          *)

BinarySemaphores == {"acquire", "present"}

TimelineSemaphores == {"timeline_a", "timeline_b"}

\* The semaphore lists a configuration can carry: no handle twice.
SemaphoreLists(S) ==
    {<<>>} \cup {<<a>> : a \in S}
           \cup {p \in S \X S : p[1] # p[2]}

\* set_configs receives the QueueSystemInitialState of the queue system.
SetInitialState ==
    /\ flush_pc = "new"
    /\ \E signals \in SemaphoreLists(TimelineSemaphores),
          waits \in SemaphoreLists(TimelineSemaphores) :
          flush_state' = set_configs_initial(flush_state,
                            [timeline_signals |-> signals, timeline_waits |-> waits])
    /\ flush_pc' = "idle"
    /\ UNCHANGED <<pc, clusteringVarsRest, buildVars, frameVars, flush_submits, recordVars,
                   bufferVars, pluginVars,
                   blasVars>>

\* set_configs receives the QueueSystemStateUpdate of the next frame.
SetStateUpdate ==
    /\ flush_pc = "idle"
    /\ flush_state.frame_index < MaxFrames
    /\ \E signals \in SemaphoreLists(BinarySemaphores),
          waits \in SemaphoreLists(BinarySemaphores) :
          flush_state' = set_configs_update(flush_state,
                            [frame_index |-> flush_state.frame_index + 1,
                             binary_signals |-> signals,
                             binary_waits |-> waits])
    /\ flush_pc' = "ready"
    /\ UNCHANGED <<pc, clusteringVarsRest, buildVars, frameVars, flush_submits, recordVars,
                   bufferVars, pluginVars,
                   blasVars>>

\* The queue system runs: flush_system_graph calls queue_submit2 once.
FlushSystemGraph ==
    /\ flush_pc = "ready"
    /\ flush_submits' = Append(flush_submits, flush_system_graph(flush_state))
    /\ flush_pc' = "idle"
    /\ UNCHANGED <<pc, clusteringVarsRest, buildVars, frameVars, flush_state, recordVars,
                   bufferVars, pluginVars,
                   blasVars>>

FlushNext ==
    \/ SetInitialState
    \/ SetStateUpdate
    \/ FlushSystemGraph

\* A queue system that is configured, then updated and run frame by frame.
FlushSpec == Init /\ [][FlushNext]_vars

-----------------------------------------------------------------------------
(* CommandPool::record (src/src/future/exec.rs)                              *)

MaxPolls == 3
MaxGeneration == 1
MaxSignalValue == 2

\* What one access of the future registers in the context: an image
\* transition, or stage/access masks for the aggregate memory barrier.
Accesses ==
    {[kind |-> "image", image |-> "image_a"],
     [kind |-> "image", image |-> "image_b"],
     [kind |-> "memory", src |-> {"COMPUTE_SHADER_WRITE"}, dst |-> {"TRANSFER_READ"}],
     [kind |-> "memory", src |-> {"TRANSFER_WRITE"}, dst |-> {"VERTEX_SHADER_READ"}]}

\* The accesses a future makes between two yields.
AccessLists ==
    {<<>>} \cup {<<a>> : a \in Accesses} \cup (Accesses \X Accesses)

\* The context after one access has registered its barrier.
register_barrier(ctx, access) ==
    IF access.kind = "image"
    THEN [ctx EXCEPT !.image_barrier = Append(@, access.image)]
    ELSE [ctx EXCEPT !.memory_barrier =
              [src |-> @.src \cup access.src, dst |-> @.dst \cup access.dst]]

RECURSIVE register_barriers(_, _, _)
register_barriers(ctx, accesses, i) ==
    IF i > Len(accesses) THEN ctx
    ELSE register_barriers(register_barrier(ctx, accesses[i]), accesses, i + 1)

has_barriers(ctx) ==
    \/ ctx.image_barrier # <<>>
    \/ ctx.memory_barrier.src # {}
    \/ ctx.memory_barrier.dst # {}

clear_barriers(ctx) == EmptyContext

\* Mutant of record_check: only the pool handle is compared.
record_check_pool_only(p, cb) == cb.pool = p.raw

\* The two assert_eq! at the top of record.
record_check(p, cb) ==
    /\ cb.pool = p.raw
    /\ cb.generation = p.generation

\* self.device().cmd_pipeline_barrier2(command_buffer.raw, ..)
cmd_pipeline_barrier2(cb) ==
    [cb EXCEPT !.commands =
        Append(@, [image_memory_barriers |-> cb.future_ctx.image_barrier,
                   memory_barriers |-> <<cb.future_ctx.memory_barrier>>])]

\* Mutant of on_pending: the barrier is recorded whether or not the context
\* has barriers.
on_pending_unconditional(cb) ==
    [cmd_pipeline_barrier2(cb) EXCEPT !.future_ctx = clear_barriers(@)]

\* Mutant of on_pending: the context is not cleared after the barrier.
on_pending_keeps_barriers(cb) ==
    IF has_barriers(cb.future_ctx) THEN cmd_pipeline_barrier2(cb) ELSE cb

\* The Poll::Pending arm of the loop.
on_pending(cb) ==
    [(IF has_barriers(cb.future_ctx) THEN cmd_pipeline_barrier2(cb) ELSE cb)
        EXCEPT !.future_ctx = clear_barriers(@)]

\* Mutant of GPUFutureSubmissionStatus_of: the status waits for the value
\* before the command buffer's signal value.
GPUFutureSubmissionStatus_of_previous(cb) ==
    [return_value |-> "output",
     retained_values |-> "retained",
     timeline_semaphore |-> cb.timeline_semaphore,
     wait_value |-> cb.signal_value - 1]

\* The GPUFutureSubmissionStatus that record returns.
GPUFutureSubmissionStatus_of(cb) ==
    [return_value |-> "output",
     retained_values |-> "retained",
     timeline_semaphore |-> cb.timeline_semaphore,
     wait_value |-> cb.signal_value]

\* CommandPool::begin: a buffer stamped with the pool's handle and current
\* generation; or a buffer that was begun on another pool.
Begin ==
    /\ record_pc = "no_buffer"
    /\ \E from \in {"pool", "other_pool"}, g \in 0..MaxGeneration,
          sem \in TimelineSemaphores, value \in 1..MaxSignalValue :
          /\ from = "pool" => g = pool.generation
          /\ command_buffer' =
                [pool |-> from, generation |-> g, signal_value |-> value,
                 timeline_semaphore |-> sem,
                 future_ctx |-> EmptyContext, commands |-> <<>>]
    /\ record_pc' = "idle"
    /\ UNCHANGED <<pc, clusteringVarsRest, buildVars, frameVars, flushVars,
                   pool, future_log, submission_status, semaphore_value,
                   bufferVars, pluginVars,
                   blasVars>>

\* CommandPool::reset: the generation is bumped; a buffer begun before is
\* left with the old generation.
Reset ==
    /\ record_pc \in {"no_buffer", "idle"}
    /\ pool.generation < MaxGeneration
    /\ pool' = [pool EXCEPT !.generation = @ + 1]
    /\ UNCHANGED <<pc, clusteringVarsRest, buildVars, frameVars, flushVars,
                   record_pc, command_buffer, future_log, submission_status,
                   semaphore_value,
                   bufferVars, pluginVars,
                   blasVars>>

\* record, lines 53-61: the assertions, then the future is pinned.
RecordEnter ==
    /\ record_pc = "idle"
    /\ record_pc' = IF record_check(pool, command_buffer)
                    THEN "polling" ELSE "panicked"
    /\ UNCHANGED <<pc, clusteringVarsRest, buildVars, frameVars, flushVars,
                   pool, command_buffer, future_log, submission_status,
                   semaphore_value,
                   bufferVars, pluginVars,
                   blasVars>>

\* record, lines 62-91: one iteration of the loop.  The future is polled: it
\* registers the barriers of its accesses and yields Pending or Ready; on
\* Ready the status is returned.
RecordPoll ==
    /\ record_pc = "polling"
    /\ \E accesses \in AccessLists, result \in {"Pending", "Ready"} :
          LET polled == [command_buffer EXCEPT
                            !.future_ctx = register_barriers(@, accesses, 1)]
          IN /\ Len(future_log) = MaxPolls - 1 => result = "Ready"
             /\ future_log' = Append(future_log,
                                     [accesses |-> accesses, result |-> result])
             /\ IF result = "Pending"
                THEN /\ command_buffer' = on_pending(polled)
                     /\ UNCHANGED <<record_pc, submission_status>>
                ELSE /\ command_buffer' = polled
                     /\ submission_status' =
                           GPUFutureSubmissionStatus_of(command_buffer)
                     /\ record_pc' = "returned"
    /\ UNCHANGED <<pc, clusteringVarsRest, buildVars, frameVars, flushVars,
                   pool, semaphore_value,
                   bufferVars, pluginVars,
                   blasVars>>

RecordNext ==
    \/ Begin
    \/ Reset
    \/ RecordEnter
    \/ RecordPoll

\* A pool, a command buffer and one call of record.
RecordSpec == Init /\ [][RecordNext]_vars

\* record is a loop on the calling thread: while it is in the loop the next
\* poll is always taken.
FairRecordSpec == RecordSpec /\ WF_vars(RecordPoll)

\* The caller drops the GPUFutureSubmissionStatus: the struct has no Drop
\* implementation, so its fields, the retained values among them, are
\* dropped with it.
DropStatus ==
    /\ record_pc = "returned"
    /\ submission_status.retained_values = "retained"
    /\ submission_status' = [submission_status EXCEPT !.retained_values = "dropped"]
    /\ UNCHANGED <<pc, clusteringVarsRest, buildVars, frameVars, flushVars,
                   record_pc, pool, command_buffer, future_log, semaphore_value,
                   bufferVars, pluginVars,
                   blasVars>>

\* The submission of the command buffer completes on the GPU and signals the
\* buffer's signal value on the timeline semaphore.
SemaphoreSignal ==
    /\ record_pc = "returned"
    /\ semaphore_value < command_buffer.signal_value
    /\ semaphore_value' = command_buffer.signal_value
    /\ UNCHANGED <<pc, clusteringVarsRest, buildVars, frameVars, flushVars,
                   record_pc, pool, command_buffer, future_log, submission_status,
                   bufferVars, pluginVars,
                   blasVars>>

StatusNext ==
    \/ RecordNext
    \/ DropStatus
    \/ SemaphoreSignal

\* record followed by the life of the returned status.
StatusSpec == Init /\ [][StatusNext]_vars

-----------------------------------------------------------------------------
(* Properties of graph_clustering                                           *)

\* graph_clustering has returned.
Clustered == pc \notin {"start", "extracted", "clustering"}

RenderNodes == Range(render_subgraph.nodes)

\* The cluster a render node was placed in, read off the returned node lists.
ClusterOf(n) ==
    CHOOSE k \in 1..Len(clustered_graph_info) : n \in Range(clustered_graph_info[k].nodes)

\* C1: the cluster graph returned by graph_clustering is acyclic, whatever
\* the colours and is_standalone flags of the nodes, so the topological sort
\* in build() never fails.
ClusterGraphAcyclic ==
    /\ Clustered => IsAcyclic(clustered_graph.edges)
    /\ pc # "panicked"

\* C2: every render-graph edge whose endpoints lie in different clusters is
\* an edge of the cluster graph, and the cluster graph has no other edge and
\* no self-loop.
ClusterEdgesInduced ==
    Clustered =>
        /\ \A e \in render_subgraph.edges :
              ClusterOf(e[1]) # ClusterOf(e[2]) =>
                  <<ClusterOf(e[1]), ClusterOf(e[2])>> \in clustered_graph.edges
        /\ \A ce \in clustered_graph.edges :
              /\ ce[1] # ce[2]
              /\ \E e \in render_subgraph.edges :
                    ClusterOf(e[1]) = ce[1] /\ ClusterOf(e[2]) = ce[2]

\* Witness of C2: a render-graph edge crosses two clusters and another one
\* stays inside a cluster.
ClusterEdgesInducedWitness ==
    /\ Clustered
    /\ \E e \in render_subgraph.edges : ClusterOf(e[1]) # ClusterOf(e[2])
    /\ \E e \in render_subgraph.edges : ClusterOf(e[1]) = ClusterOf(e[2])

\* C3: a cluster is either a non-empty set of non-standalone systems of one
\* queue or exactly one standalone system; a standalone system is alone.
ClusterOneQueue ==
    Clustered =>
        \A k \in 1..Len(clustered_graph_info) :
            LET members == clustered_graph_info[k].nodes
            IN /\ members # <<>>
               /\ \A i, j \in 1..Len(members) :
                     systems[members[i]].queue_component_id =
                        systems[members[j]].queue_component_id
               /\ \/ \A i \in 1..Len(members) : ~ systems[members[i]].is_standalone
                  \/ Len(members) = 1 /\ systems[members[1]].is_standalone
               /\ clustered_graph_info[k].info = get_node_info(members[1])

\* Witness of C3: a cluster of two systems next to a standalone cluster of
\* the same queue.
ClusterOneQueueWitness ==
    /\ Clustered
    /\ \E k, l \in 1..Len(clustered_graph_info) :
          /\ Len(clustered_graph_info[k].nodes) = 2
          /\ clustered_graph_info[l].info.is_standalone
          /\ clustered_graph_info[l].info.color = clustered_graph_info[k].info.color

\* A partition of the render nodes (node -> block) into single-queue
\* clusters, standalone systems alone, whose induced graph is acyclic.
AdmissiblePartition(f) ==
    /\ \A a, b \in RenderNodes :
          (a # b /\ f[a] = f[b]) =>
              /\ get_node_info(a) = get_node_info(b)
              /\ ~ get_node_info(a).is_standalone
    /\ IsAcyclic({<<f[e[1]], f[e[2]]>> :
                     e \in {x \in render_subgraph.edges : f[x[1]] # f[x[2]]}})

MinClusterCount ==
    LET counts == {Cardinality({f[n] : n \in RenderNodes}) :
                     f \in {g \in [RenderNodes -> 1..Cardinality(RenderNodes)] :
                               AdmissiblePartition(g)}}
    IN CHOOSE m \in counts : \A c \in counts : m <= c

\* C4: the number of clusters is the smallest number of clusters of any
\* admissible partition of the render systems.
ClusterCountMinimal ==
    Clustered => Len(clustered_graph_info) = MinClusterCount

Emitted == DOMAIN node_stage_indexes

\* The loop is at the top of an iteration that opens a stage: nothing has
\* been emitted or deferred in the current stage yet.
StageStart ==
    /\ pc = "clustering"
    /\ heap # <<>>
    /\ heap_next_stage = <<>>
    /\ \A n \in Emitted : node_stage_indexes[n] # stage_index

ClusteringLoopInv ==
    /\ (pc = "clustering" /\ heap = <<>>) => heap_next_stage = <<>>
    /\ \A s \in 0..(stage_index - 1) : \E n \in Emitted : node_stage_indexes[n] = s
    /\ \A i \in 1..Len(heap_next_stage) : heap_next_stage[i] \notin Emitted
    /\ Clustered => /\ Emitted = RenderNodes
                    /\ heap = <<>>
                    /\ heap_next_stage = <<>>

\* C5: graph_clustering terminates: the node that opens a stage is emitted,
\* so every sealed stage holds at least one node; a deferred node is emitted
\* in a later stage; and the loop ends exactly when the ready queue and the
\* deferred queue are both empty, with every node emitted.
ClusteringTerminates ==
    /\ []ClusteringLoopInv
    /\ [][StageStart => heap[Len(heap)] \in Emitted']_vars
    /\ [][\A n \in Emitted' \ Emitted :
             n \notin Range(heap_next_stage) /\ node_stage_indexes'[n] = stage_index]_vars
    /\ (pc = "clustering") ~> (pc = "clustered")

\* Witness of C5: the loop has ended after a node was deferred and emitted
\* in the second stage.
ClusteringTerminatesWitness ==
    /\ pc = "clustered"
    /\ stage_index >= 2
    /\ \E n \in Emitted : node_stage_indexes[n] = 1

-----------------------------------------------------------------------------
(* Properties of the injected systems and of the frames                     *)

Injected == pc \in {"injected", "built", "panicked"}

SystemsOfRole(k, r) ==
    {s \in Range(queue_nodes[k].nodes) : systems[s].role = r}

\* C7: for every non-standalone cluster the pass adds the host edges
\* prelude -> member and member -> submission for every member, so that no
\* member can be ordered before the prelude or after the submission.
PreludeMembersSubmission ==
    Injected =>
        /\ IsAcyclic(dependency_flattened.edges)
        /\ \A k \in 1..Len(queue_nodes) :
              ~ queue_nodes[k].info.is_standalone =>
                  /\ Cardinality(SystemsOfRole(k, "prelude")) = 1
                  /\ SystemsOfRole(k, "submission") = {queue_nodes[k].queue_node}
                  /\ \A m \in Range(clustered_graph_info[k].nodes) :
                        /\ \A p \in SystemsOfRole(k, "prelude") :
                              <<p, m>> \in dependency_flattened.edges
                        /\ <<m, queue_nodes[k].queue_node>> \in dependency_flattened.edges

\* Witness of C7: a non-standalone cluster of two systems has received its
\* prelude and submission systems.
PreludeMembersSubmissionWitness ==
    /\ Injected
    /\ \E k \in 1..Len(queue_nodes) :
          /\ ~ queue_nodes[k].info.is_standalone
          /\ Len(clustered_graph_info[k].nodes) = 2
          /\ Len(queue_nodes[k].nodes) = 4

Clusters == DOMAIN submissions

TimelineOf(c) == queue_nodes[c].timeline_dependencies.this

\* Cluster v waits on the timeline of cluster u.
WaitEdges ==
    {<<v, u>> \in Clusters \X Clusters :
        TimelineOf(u) \in Range(queue_state[queue_nodes[v].queue_node].timeline_waits)}

TimelineOps(ops, t) ==
    {ops[i].value : i \in {j \in 1..Len(ops) :
                              ops[j].kind = "timeline" /\ ops[j].semaphore = t}}

AllCompleted == \A c \in Clusters : completed[c] = Len(submissions[c])

\* C8: the timeline waits of the submissions form no cycle, the GPU is never
\* stuck with a pending submission, and every submission of every frame
\* eventually completes.
DeadlockFreedom ==
    /\ [](pc = "built" => IsAcyclic(WaitEdges))
    /\ []((\A c \in 1..MaxNodes : ~ ENABLED Execute(c)) => AllCompleted)
    /\ []<>AllCompleted

\* Witness of C8: in the second frame a submission that waits on another
\* cluster's timeline has completed.
DeadlockFreedomWitness ==
    /\ pc = "built"
    /\ \E e \in WaitEdges : completed[e[1]] = 2

\* C9: for every cluster edge u -> v and every frame f that v has submitted,
\* u has submitted frame f, every wait of v's submission on u's timeline
\* names at least the value u signals in frame f (and an edge of the
\* reduction has such a wait), and v's submission of frame f is executed
\* only after u's submission of frame f.
WaitCoversSignal ==
    pc = "built" =>
        \A e \in clustered_graph.edges :
            LET u == e[1]
                v == e[2]
            IN /\ completed[v] <= completed[u]
               /\ \A f \in 1..Len(submissions[v]) :
                     /\ f <= Len(submissions[u])
                     /\ \A x \in TimelineOps(submissions[v][f].waits, TimelineOf(u)) :
                           \A y \in TimelineOps(submissions[u][f].signals, TimelineOf(u)) :
                               x >= y
                     /\ TimelineOps(submissions[u][f].signals, TimelineOf(u)) # {}
                     /\ e \in TransitiveReduction(clustered_graph.edges) =>
                           TimelineOps(submissions[v][f].waits, TimelineOf(u)) # {}

\* Witness of C9: v has been executed in the second frame behind an edge
\* u -> v.
WaitCoversSignalWitness ==
    /\ pc = "built"
    /\ \E e \in clustered_graph.edges : completed[e[2]] = 2

-----------------------------------------------------------------------------
(* Timelines and host order of the clusters of one queue                    *)

Timelines == {TimelineOf(k) : k \in 1..Len(queue_nodes)}

QueuesUsed == {queue_nodes[k].queue_component_id : k \in 1..Len(queue_nodes)}

SameQueue(k, l) ==
    queue_nodes[k].queue_component_id = queue_nodes[l].queue_component_id

\* The submitting system of cluster k is ordered before that of cluster l.
HostBefore(k, l) ==
    Path(dependency_flattened.edges, queue_nodes[k].queue_node,
         queue_nodes[l].queue_node)

\* C12: for two clusters of the same queue, a cluster that precedes the
\* other in the cluster graph has its submitting system ordered before the
\* other's by host dependency edges, and two clusters of the same queue are
\* never left unordered.
SameQueueSubmissionOrder ==
    pc = "built" =>
        \A k, l \in 1..Len(queue_nodes) :
            (k # l /\ SameQueue(k, l)) =>
                /\ Path(clustered_graph.edges, k, l) => HostBefore(k, l)
                /\ HostBefore(k, l) \/ HostBefore(l, k)

\* C12 as amended: for two clusters of the same queue, a cluster that
\* precedes the other in the cluster graph has its submitting system ordered
\* before the other's by host dependency edges, and never after it.
SameQueueOrderFollowsClusterGraph ==
    pc = "built" =>
        \A k, l \in 1..Len(queue_nodes) :
            (k # l /\ SameQueue(k, l) /\ Path(clustered_graph.edges, k, l)) =>
                /\ HostBefore(k, l)
                /\ ~ HostBefore(l, k)

\* Witness of C12: two non-standalone clusters of one queue, the first
\* before the second in the cluster graph.
SameQueueOrderFollowsClusterGraphWitness ==
    /\ pc = "built"
    /\ \E k, l \in 1..Len(queue_nodes) :
          /\ k # l
          /\ SameQueue(k, l)
          /\ ~ queue_nodes[k].info.is_standalone
          /\ ~ queue_nodes[l].info.is_standalone
          /\ Path(clustered_graph.edges, k, l)

-----------------------------------------------------------------------------
(* Properties of flush_system_graph                                         *)

LastSubmit == flush_submits[Len(flush_submits)]

\* ops is the list a followed by the list b, entry by entry.
CarriesInOrder(ops, a, b) ==
    /\ Len(ops) = Len(a) + Len(b)
    /\ \A i \in 1..Len(a) : ops[i].semaphore = a[i]
    /\ \A i \in 1..Len(b) : ops[Len(a) + i].semaphore = b[i]

\* C13: each run of the submission step issues exactly one queue_submit2
\* with exactly one command buffer; its wait list is the binary waits
\* followed by the timeline waits, its signal list the binary signals
\* followed by the timeline signals, entry by entry with nothing dropped or
\* duplicated, and the binary entries carry the value 0.
SubmitCarriesAllSemaphores ==
    (flush_pc = "idle" /\ flush_submits # <<>>) =>
        /\ Len(flush_submits) = flush_state.frame_index
        /\ LastSubmit.command_buffers = 1
        /\ CarriesInOrder(LastSubmit.waits, flush_state.binary_waits,
                          flush_state.timeline_waits)
        /\ CarriesInOrder(LastSubmit.signals, flush_state.binary_signals,
                          flush_state.timeline_signals)
        /\ \A i \in 1..Len(flush_state.binary_waits) : LastSubmit.waits[i].value = 0
        /\ \A i \in 1..Len(flush_state.binary_signals) : LastSubmit.signals[i].value = 0

\* Witness of C13: the second run submitted two binary waits, two timeline
\* waits, a binary signal and a timeline signal.
SubmitCarriesAllSemaphoresWitness ==
    /\ flush_pc = "idle"
    /\ Len(flush_submits) = 2
    /\ Len(flush_state.binary_waits) = 2
    /\ Len(flush_state.timeline_waits) = 2
    /\ Len(LastSubmit.waits) = 4
    /\ Len(LastSubmit.signals) = 2
    /\ flush_state.binary_signals # <<>>

-----------------------------------------------------------------------------
(* Properties of CommandPool::record                                        *)

\* The polls that yielded Pending, and those among them at which the future
\* had registered something since the previous yield.
Yields == SelectSeq(future_log, LAMBDA e : e.result = "Pending")

BarrierYields == SelectSeq(Yields, LAMBDA e : e.accesses # <<>>)

ImageAccesses(accesses) == SelectSeq(accesses, LAMBDA a : a.kind = "image")

MemoryAccesses(accesses) ==
    {accesses[i] : i \in {j \in 1..Len(accesses) : accesses[j].kind = "memory"}}

RecordedBarriers == command_buffer.commands

\* C14: every Pending yield with a non-empty pending set produces exactly
\* one cmd_pipeline_barrier2; it carries all image barriers registered since
\* the previous yield and one memory barrier that aggregates all the memory
\* accesses registered since then, however many accesses there were; and the
\* pending set is empty when the future is polled again.
BarriersCoalesced ==
    /\ Len(RecordedBarriers) = Len(BarrierYields)
    /\ \A j \in 1..Len(RecordedBarriers) :
          LET accesses == BarrierYields[j].accesses
              barrier == RecordedBarriers[j]
          IN /\ Len(barrier.image_memory_barriers) = Len(ImageAccesses(accesses))
             /\ \A i \in 1..Len(barrier.image_memory_barriers) :
                   barrier.image_memory_barriers[i] = ImageAccesses(accesses)[i].image
             /\ Len(barrier.memory_barriers) = 1
             /\ barrier.memory_barriers[1].src =
                   UNION {a.src : a \in MemoryAccesses(accesses)}
             /\ barrier.memory_barriers[1].dst =
                   UNION {a.dst : a \in MemoryAccesses(accesses)}
    /\ record_pc = "polling" => ~ has_barriers(command_buffer.future_ctx)

\* Witness of C14: two accesses registered before the first yield gave one
\* barrier, and a second yield gave a second barrier.
BarriersCoalescedWitness ==
    /\ Len(Yields) = 2
    /\ Len(Yields[1].accesses) = 2
    /\ Len(RecordedBarriers) = 2
    /\ Len(RecordedBarriers[1].image_memory_barriers) = 1
    /\ RecordedBarriers[1].memory_barriers[1].src # {}

\* C15: record never emits a no-op barrier: every recorded barrier has an
\* image barrier or a memory barrier with a non-empty mask, and a Pending
\* yield with an empty pending set records no barrier.
NoNoOpBarrier ==
    /\ \A j \in 1..Len(RecordedBarriers) :
          \/ RecordedBarriers[j].image_memory_barriers # <<>>
          \/ \E i \in 1..Len(RecordedBarriers[j].memory_barriers) :
                \/ RecordedBarriers[j].memory_barriers[i].src # {}
                \/ RecordedBarriers[j].memory_barriers[i].dst # {}
    /\ Len(RecordedBarriers) <= Len(BarrierYields)

\* Witness of C15: a yield with an empty pending set next to a yield that
\* recorded a barrier.
NoNoOpBarrierWitness ==
    /\ Len(Yields) = 2
    /\ Len(BarrierYields) = 1
    /\ Len(RecordedBarriers) = 1

DroppedRetained == submission_status.retained_values = "dropped"

\* C16: the retained values are moved into the returned status and are not
\* dropped before the status's timeline semaphore has reached wait_value,
\* the signal value of the command buffer.
RetainedOutliveSubmission ==
    /\ record_pc = "returned" =>
          /\ submission_status.retained_values \in {"retained", "dropped"}
          /\ submission_status.wait_value = command_buffer.signal_value
    /\ DroppedRetained => semaphore_value >= submission_status.wait_value

PairingMatches ==
    /\ command_buffer.pool = pool.raw
    /\ command_buffer.generation = pool.generation

\* C17: record detects a mismatched pool / command buffer pairing before
\* anything else: with a foreign or stale buffer it aborts, the future is not
\* polled and no command is recorded; the future is only ever polled with a
\* matching buffer.
MismatchDetectedFirst ==
    /\ record_pc = "panicked" =>
          /\ ~ PairingMatches
          /\ future_log = <<>>
          /\ command_buffer.commands = <<>>
          /\ submission_status = NullStatus
    /\ record_pc \in {"polling", "returned"} => PairingMatches
    /\ future_log # <<>> => PairingMatches

\* Witness of C17: record aborted on a buffer of its own pool that was
\* stamped before a reset.
MismatchDetectedFirstWitness ==
    /\ record_pc = "panicked"
    /\ command_buffer.pool = pool.raw
    /\ command_buffer.generation < pool.generation

-----------------------------------------------------------------------------
(* Boundary cases of the clustering                                         *)

\* Position of a system in a chain: one more than the number of systems
\* before it.
ChainPosition(n) ==
    1 + Cardinality({m \in RenderNodes : Path(dependency_flattened.edges, m, n)})

TimelineDependencyCount ==
    Cardinality({<<k, i>> \in (1..Len(queue_nodes)) \X (1..MaxNodes + 1) :
                    i <= Len(queue_nodes[k].timeline_dependencies.dependencies)})

\* C18: for a chain of four non-standalone systems whose queues alternate,
\* the pass produces exactly four clusters, one per system, the cluster graph
\* is acyclic, and exactly three timeline dependencies are installed, one per
\* consecutive pair of the chain.
ChainFourClusters ==
    /\ Clustered =>
          /\ Len(clustered_graph_info) = 4
          /\ \A k \in 1..Len(clustered_graph_info) :
                Len(clustered_graph_info[k].nodes) = 1
          /\ IsAcyclic(clustered_graph.edges)
    /\ pc = "built" =>
          /\ TimelineDependencyCount = 3
          /\ \A u, v \in RenderNodes :
                ChainPosition(v) = ChainPosition(u) + 1 =>
                    queue_nodes[ClusterOf(v)].timeline_dependencies.dependencies
                        = <<[timeline |-> TimelineOf(ClusterOf(u)),
                             stage |-> "ALL_COMMANDS"]>>

\* Witness of C18: the build of a chain has finished and the third system of
\* the chain was deferred to the second stage.
ChainFourClustersWitness ==
    /\ pc = "built"
    /\ Cardinality(RenderNodes) = 4
    /\ \E n \in RenderNodes : ChainPosition(n) = 3 /\ node_stage_indexes[n] = 1

\* Pairs of distinct standalone systems of the same colour.
StandalonePairs ==
    {p \in RenderNodes \X RenderNodes :
        /\ p[1] # p[2]
        /\ systems[p[1]].is_standalone
        /\ systems[p[2]].is_standalone
        /\ systems[p[1]].queue_component_id = systems[p[2]].queue_component_id}

\* Clusters k and l are the single-system clusters of a and b, on one queue.
SeparateClusters(a, b, k, l) ==
    /\ k # l
    /\ clustered_graph_info[k].nodes = <<a>>
    /\ clustered_graph_info[l].nodes = <<b>>
    /\ color_to_queue_component_id[clustered_graph_info[k].info.color + 1]
          = color_to_queue_component_id[clustered_graph_info[l].info.color + 1]

EmittedInDifferentStages ==
    \A p \in StandalonePairs :
        (p[1] \in Emitted /\ p[2] \in Emitted) =>
            node_stage_indexes[p[1]] # node_stage_indexes[p[2]]

\* C19: any two standalone systems of the same colour are placed in two
\* distinct single-system clusters of the same queue, are emitted in
\* different stages, and their clusters are ordered in the cluster graph:
\* one is reachable from the other.
StandalonePairOrdered ==
    /\ EmittedInDifferentStages
    /\ Clustered =>
          \A p \in StandalonePairs :
              \E k, l \in 1..Len(clustered_graph_info) :
                  /\ SeparateClusters(p[1], p[2], k, l)
                  /\ \/ Path(clustered_graph.edges, k, l)
                     \/ Path(clustered_graph.edges, l, k)

\* C19 as amended: any two standalone systems of the same colour are placed
\* in two distinct single-system clusters of the same queue and are emitted
\* in different stages; the cluster of the one is reachable from the cluster
\* of the other whenever the one depends on the other in the render graph.
StandalonePairSeparated ==
    /\ EmittedInDifferentStages
    /\ Clustered =>
          \A p \in StandalonePairs :
              \E k, l \in 1..Len(clustered_graph_info) :
                  /\ SeparateClusters(p[1], p[2], k, l)
                  /\ Path(render_subgraph.edges, p[1], p[2])
                        => Path(clustered_graph.edges, k, l)

\* Witness of C19: two independent standalone systems of one colour and a
\* third standalone system of that colour that depends on one of them.
StandalonePairSeparatedWitness ==
    /\ Clustered
    /\ \E p, q \in StandalonePairs :
          /\ ~ Path(render_subgraph.edges, p[1], p[2])
          /\ ~ Path(render_subgraph.edges, p[2], p[1])
          /\ Path(render_subgraph.edges, q[1], q[2])

\* a and b are parallel non-standalone systems of two colours and j, of the
\* colour of a, is the join of the two; there is no other render system.
IsDiamond(a, b, j) ==
    /\ RenderNodes = {a, b, j}
    /\ Cardinality({a, b, j}) = 3
    /\ render_subgraph.edges = {<<a, j>>, <<b, j>>}
    /\ \A n \in {a, b, j} : ~ systems[n].is_standalone
    /\ systems[a].queue_component_id # systems[b].queue_component_id
    /\ systems[j].queue_component_id = systems[a].queue_component_id

\* C20: for a diamond over two colours, clustering yields exactly three
\* clusters: the two parallel systems in two clusters with no edge between
\* them and the join system in a third cluster with both as predecessors.
DiamondThreeClusters ==
    Clustered =>
        \A a, b, j \in RenderNodes :
            IsDiamond(a, b, j) =>
                /\ Len(clustered_graph_info) = 3
                /\ Cardinality({ClusterOf(a), ClusterOf(b), ClusterOf(j)}) = 3
                /\ clustered_graph.edges =
                      {<<ClusterOf(a), ClusterOf(j)>>, <<ClusterOf(b), ClusterOf(j)>>}

\* C20 as amended: for a diamond over two colours, clustering yields exactly
\* two clusters: the join system shares the cluster of the parallel system of
\* its own colour, the other parallel system is a cluster of its own, and the
\* only cluster edge runs from that cluster to the cluster of the join.
DiamondTwoClusters ==
    Clustered =>
        \A a, b, j \in RenderNodes :
            IsDiamond(a, b, j) =>
                /\ Len(clustered_graph_info) = 2
                /\ ClusterOf(a) = ClusterOf(j)
                /\ ClusterOf(b) # ClusterOf(j)
                /\ Range(clustered_graph_info[ClusterOf(j)].nodes) = {a, j}
                /\ clustered_graph_info[ClusterOf(b)].nodes = <<b>>
                /\ clustered_graph.edges = {<<ClusterOf(b), ClusterOf(j)>>}

\* Witness of C20: the clustering of a diamond has returned.
DiamondTwoClustersWitness ==
    /\ Clustered
    /\ \E a, b, j \in RenderNodes :
          /\ IsDiamond(a, b, j)
          /\ node_stage_indexes[j] = 0

-----------------------------------------------------------------------------
(* The per-stage graph of graph_clustering                                  *)

\* The node the loop pops next.
HeapTop == heap[Len(heap)]

\* Emitting node now would close a cycle in the tiny graph: the tiny graph
\* already has a path from the node's key to the key of a predecessor of
\* another colour.
WouldCloseCycle(node) ==
    \E parent \in neighbors_incoming(render_subgraph, node) :
        /\ get_node_info(parent).color # get_node_info(node).color
        /\ get_node_info(parent) \in ReachFrom(tiny_graph, {get_node_info(node)})

\* C21: the per-stage graph T is acyclic in every state of graph_clustering;
\* a node whose emission would close a cycle in T is deferred: it is not
\* emitted in the current stage, it waits in the deferred queue until the
\* stage is sealed, every node is emitted in the stage that is current when
\* it is popped, so the deferred node is emitted in a strictly later stage
\* than its predecessors, and nodes of different stages are never in the
\* same cluster.
TinyGraphAcyclic ==
    /\ [](IsAcyclic(tiny_graph))
    /\ [][(pc = "clustering" /\ heap # <<>> /\ WouldCloseCycle(HeapTop)) =>
             /\ HeapTop \notin Emitted'
             /\ \A p \in neighbors_incoming(render_subgraph, HeapTop) :
                   p \in Emitted /\ node_stage_indexes[p] <= stage_index
             /\ \/ stage_index' = stage_index /\ HeapTop \in Range(heap_next_stage')
                \/ stage_index' = stage_index + 1 /\ HeapTop \in Range(heap')]_vars
    /\ [][\A n \in Emitted' \ Emitted :
             /\ n = HeapTop
             /\ ~ WouldCloseCycle(n)
             /\ node_stage_indexes'[n] = stage_index]_vars
    /\ [](\A e \in render_subgraph.edges :
             e[2] \in Emitted =>
                 /\ e[1] \in Emitted
                 /\ node_stage_indexes[e[1]] <= node_stage_indexes[e[2]])
    /\ [](Clustered =>
             \A n, m \in RenderNodes :
                 ClusterOf(n) = ClusterOf(m) =>
                     node_stage_indexes[n] = node_stage_indexes[m])

\* Witness of C21: a node was deferred behind a predecessor of another colour
\* and emitted one stage later, in another cluster than an earlier node of
\* its own kind.
TinyGraphAcyclicWitness ==
    /\ Clustered
    /\ \E e \in render_subgraph.edges, m \in RenderNodes :
          /\ get_node_info(e[1]).color # get_node_info(e[2]).color
          /\ get_node_info(m) = get_node_info(e[2])
          /\ node_stage_indexes[m] = node_stage_indexes[e[1]]
          /\ node_stage_indexes[e[2]] = node_stage_indexes[e[1]] + 1
          /\ ClusterOf(m) # ClusterOf(e[2])

-----------------------------------------------------------------------------
(* Pipelines over three queues                                              *)

\* c feeds g, g feeds t, the three systems run on three different queues and
\* are the only render systems; the edge from c to t may or may not be
\* declared.
IsPipeline(c, g, t) ==
    /\ RenderNodes = {c, g, t}
    /\ Cardinality({systems[n].queue_component_id : n \in {c, g, t}}) = 3
    /\ render_subgraph.edges \in {{<<c, g>>, <<g, t>>},
                                  {<<c, g>>, <<g, t>>, <<c, t>>}}

\* C22: for a compute producer feeding a graphics consumer feeding a
\* transfer reader, with or without the direct edge from the producer to the
\* reader, clustering yields three clusters, the cluster graph has the edges
\* producer -> consumer -> reader (and the direct edge exactly when it was
\* declared), and after the transitive reduction exactly two timeline
\* dependencies are installed: the consumer waits for the producer and the
\* reader waits for the consumer.
PipelineThreeClusters ==
    \A c, g, t \in RenderNodes :
        IsPipeline(c, g, t) =>
            /\ Clustered =>
                  /\ Len(clustered_graph_info) = 3
                  /\ Cardinality({ClusterOf(c), ClusterOf(g), ClusterOf(t)}) = 3
                  /\ clustered_graph.edges =
                        {<<ClusterOf(e[1]), ClusterOf(e[2])>> : e \in render_subgraph.edges}
            /\ pc = "built" =>
                  /\ TimelineDependencyCount = 2
                  /\ queue_nodes[ClusterOf(c)].timeline_dependencies.dependencies = <<>>
                  /\ queue_nodes[ClusterOf(g)].timeline_dependencies.dependencies
                        = <<[timeline |-> TimelineOf(ClusterOf(c)),
                             stage |-> "ALL_COMMANDS"]>>
                  /\ queue_nodes[ClusterOf(t)].timeline_dependencies.dependencies
                        = <<[timeline |-> TimelineOf(ClusterOf(g)),
                             stage |-> "ALL_COMMANDS"]>>

\* Witness of C22: the build of a pipeline with the direct edge has finished.
PipelineThreeClustersWitness ==
    /\ pc = "built"
    /\ \E c, g, t \in RenderNodes :
          /\ IsPipeline(c, g, t)
          /\ <<c, t>> \in render_subgraph.edges
          /\ <<ClusterOf(c), ClusterOf(t)>> \in clustered_graph.edges

-----------------------------------------------------------------------------
(* Render systems of one colour                                             *)

\* There is at least one render system, none is standalone and all run on
\* the same queue.
OneColourBatch ==
    /\ RenderNodes # {}
    /\ \A n \in RenderNodes : ~ systems[n].is_standalone
    /\ \A n, m \in RenderNodes :
          systems[n].queue_component_id = systems[m].queue_component_id

\* C23: a non-empty set of non-standalone systems that all have the same
\* colour, under any acyclic dependencies, collapses into exactly one cluster
\* with no cluster edge and no timeline dependency; the pass adds exactly
\* one prelude and one submission system, and every frame makes exactly one
\* queue submission.
OneColourOneCluster ==
    OneColourBatch =>
        /\ Clustered =>
              /\ Len(clustered_graph_info) = 1
              /\ Range(clustered_graph_info[1].nodes) = RenderNodes
              /\ clustered_graph.edges = {}
        /\ Injected =>
              /\ Len(queue_nodes) = 1
              /\ Cardinality({s \in DOMAIN systems : systems[s].role = "prelude"}) = 1
              /\ Cardinality({s \in DOMAIN systems : systems[s].role = "submission"}) = 1
              /\ queue_nodes[1].timeline_dependencies.dependencies = <<>>
        /\ pc = "built" =>
              /\ DOMAIN submissions = {1}
              /\ Len(submissions[1]) = IF 1 \in ran THEN frame
                                       ELSE IF frame = 0 THEN 0 ELSE frame - 1
              /\ \A i \in 1..Len(submissions[1]) : submissions[1][i].waits = <<>>

\* Witness of C23: two dependent systems of one colour and an independent
\* third one have been built into one cluster, and the second frame has
\* made its submission.
OneColourOneClusterWitness ==
    /\ OneColourBatch
    /\ pc = "built"
    /\ Cardinality(RenderNodes) = 3
    /\ Cardinality(render_subgraph.edges) = 1
    /\ frame = 2
    /\ ran = {1}
    /\ Len(submissions[1]) = 2

-----------------------------------------------------------------------------
(* A standalone system ahead of batched systems of its queue                *)

\* s is standalone, every other render system is a non-standalone system of
\* the queue of s, there is at least one, and s precedes each of them.
StandaloneBeforeDraws(s) ==
    /\ s \in RenderNodes
    /\ systems[s].is_standalone
    /\ RenderNodes # {s}
    /\ \A d \in RenderNodes \ {s} :
          /\ ~ systems[d].is_standalone
          /\ systems[d].queue_component_id = systems[s].queue_component_id
          /\ Path(render_subgraph.edges, s, d)

\* C24: a standalone system that precedes non-standalone systems of the same
\* queue forms a cluster of its own, which is its own queue node and receives
\* no prelude and no submission system; the other systems form one more
\* cluster with one prelude and one submission system, and that cluster
\* receives a timeline dependency on the timeline of the standalone cluster.
StandaloneOwnCluster ==
    \A s \in RenderNodes :
        StandaloneBeforeDraws(s) =>
            LET ks == ClusterOf(s)
                kd == ClusterOf(CHOOSE d \in RenderNodes : d # s)
            IN /\ Clustered =>
                     /\ Len(clustered_graph_info) = 2
                     /\ ks # kd
                     /\ clustered_graph_info[ks].nodes = <<s>>
                     /\ Range(clustered_graph_info[kd].nodes) = RenderNodes \ {s}
                     /\ clustered_graph.edges = {<<ks, kd>>}
               /\ Injected =>
                     /\ queue_nodes[ks].nodes = <<s>>
                     /\ queue_nodes[ks].queue_node = s
                     /\ {n \in DOMAIN systems : systems[n].role # "user"}
                           = SystemsOfRole(kd, "prelude") \cup SystemsOfRole(kd, "submission")
                     /\ Cardinality(SystemsOfRole(kd, "prelude")) = 1
                     /\ SystemsOfRole(kd, "submission") = {queue_nodes[kd].queue_node}
                     /\ TimelineOf(ks) # TimelineOf(kd)
               /\ pc = "built" =>
                     /\ queue_nodes[ks].timeline_dependencies.dependencies = <<>>
                     /\ queue_nodes[kd].timeline_dependencies.dependencies
                           = <<[timeline |-> TimelineOf(ks), stage |-> "ALL_COMMANDS"]>>
                     /\ <<s, queue_nodes[kd].queue_node>> \in dependency_flattened.edges

\* Witness of C24: a standalone system followed by two batched systems of
\* its queue has been built.
StandaloneOwnClusterWitness ==
    /\ pc = "built"
    /\ \E s \in RenderNodes :
          /\ StandaloneBeforeDraws(s)
          /\ Cardinality(RenderNodes) = 3
          /\ Len(queue_nodes[ClusterOf(s)].nodes) = 1

-----------------------------------------------------------------------------
(* Buffer creation and buffer copies: core/src/resources/buffer.rs          *)

\* Largest buffer size and data length that is enumerated.
MaxSize == 2

\* Largest number of caller-supplied copy regions that is enumerated.
MaxRegions == 2

\* PhysicalDeviceMemoryModel
MemoryModels == {"UMA", "Bar", "ResizableBar", "Discrete"}

\* The usage flags a caller may pass.
CallerUsages == SUBSET {"VERTEX_BUFFER", "TRANSFER_DST"}

\* Contents a caller may write: every byte is written (0 is an unwritten byte).
Datas == UNION {[1..n -> {1, 2}] : n \in 1..MaxSize}

\* No access is tracked.
NoAccess == [stage |-> "NONE", access |-> "NONE"]

\* Allocator::create_resident_buffer; handle stands for the vk::Buffer that
\* vk-mem returns.  ResidentBuffer uses the default BufferLike::offset, 0.
create_resident_buffer(handle, buffer_info, create_info) ==
    [raw |-> handle,
     size |-> buffer_info.size,
     offset |-> 0,
     usage |-> buffer_info.usage,
     allocation |-> create_info,
     contents |-> [i \in 1..buffer_info.size |-> 0]]

\* ResidentBuffer::contents_mut returns Some exactly when the allocation is
\* persistently mapped.
contents_mut(buffer) == "MAPPED" \in buffer.allocation.flags

create_upload_buffer_uninit(handle, memory_model, size, usage) ==
    IF memory_model \in {"UMA", "Bar", "ResizableBar"}
    THEN create_resident_buffer(handle, [size |-> size, usage |-> usage],
             [flags |-> {"MAPPED", "HOST_ACCESS_SEQUENTIAL_WRITE"},
              usage |-> "AutoPreferDevice"])
    ELSE create_resident_buffer(handle,
             [size |-> size, usage |-> usage \cup {"TRANSFER_DST"}],
             [flags |-> {}, usage |-> "AutoPreferDevice"])

create_dynamic_asset_buffer_uninit(handle, memory_model, size, usage) ==
    IF memory_model \in {"UMA", "ResizableBar"}
    THEN create_resident_buffer(handle, [size |-> size, usage |-> usage],
             [flags |-> {"MAPPED", "HOST_ACCESS_SEQUENTIAL_WRITE"},
              usage |-> "AutoPreferDevice"])
    ELSE create_resident_buffer(handle,
             [size |-> size, usage |-> usage \cup {"TRANSFER_DST"}],
             [flags |-> {}, usage |-> "AutoPreferDevice"])

create_staging_buffer(handle, size) ==
    create_resident_buffer(handle,
        [size |-> size, usage |-> {"TRANSFER_SRC"}],
        [flags |-> {"HOST_ACCESS_SEQUENTIAL_WRITE", "MAPPED"},
         usage |-> "AutoPreferHost"])

\* Mutant of write_or_stage: the data always goes through a staging buffer.
write_or_stage_always(dst, data) ==
    [dst_buffer |-> dst,
     staging_buffer |-> [create_staging_buffer(dst.raw + 1, Len(data))
                            EXCEPT !.contents = data]]

\* The host part of the four helpers: "let staging_buffer = if let
\* Some(contents) = dst_buffer.contents_mut() { .. None } else { ..
\* Some(staging_buffer) }".
write_or_stage(dst, data) ==
    IF contents_mut(dst)
    THEN [dst_buffer |-> [dst EXCEPT !.contents = data],
          staging_buffer |-> NoBuffer]
    ELSE [dst_buffer |-> dst,
          staging_buffer |-> [create_staging_buffer(dst.raw + 1, Len(data))
                                 EXCEPT !.contents = data]]

\* RenderRes::new: a resource with no tracked access.
RenderRes_new(inner) ==
    [inner |-> inner, last_writer |-> NoAccess, last_readers |-> {}]

\* StageContext::read: a read after a write registers a barrier and clears
\* the writer; the read is added to the readers.
ctx_read(res, stage_flags, access_flags) ==
    LET a == [stage |-> stage_flags, access |-> access_flags]
    IN [res |-> [res EXCEPT !.last_writer = NoAccess,
                            !.last_readers = @ \cup {a}],
        barriers |-> IF res.last_writer # NoAccess
                     THEN {[src |-> {res.last_writer}, dst |-> a]}
                     ELSE {}]

\* StageContext::write: a write after reads or after a write registers a
\* barrier; the write becomes the last writer and the readers are cleared.
ctx_write(res, stage_flags, access_flags) ==
    LET a == [stage |-> stage_flags, access |-> access_flags]
    IN [res |-> [res EXCEPT !.last_writer = a, !.last_readers = {}],
        barriers |-> IF res.last_readers # {}
                     THEN {[src |-> res.last_readers, dst |-> a]}
                     ELSE IF res.last_writer # NoAccess
                     THEN {[src |-> {res.last_writer}, dst |-> a]}
                     ELSE {}]

\* Mutant of CopyBufferFuture_context: source and destination are swapped.
CopyBufferFuture_context_swapped(src_res, dst_res) ==
    LET r == ctx_read(dst_res, "COPY", "TRANSFER_READ")
        w == ctx_write(src_res, "COPY", "TRANSFER_WRITE")
    IN [src |-> w.res, dst |-> r.res, barriers |-> r.barriers \cup w.barriers]

\* CopyBufferFuture::context
CopyBufferFuture_context(src_res, dst_res) ==
    LET r == ctx_read(src_res, "COPY", "TRANSFER_READ")
        w == ctx_write(dst_res, "COPY", "TRANSFER_WRITE")
    IN [src |-> r.res, dst |-> w.res, barriers |-> r.barriers \cup w.barriers]

Min(a, b) == IF a <= b THEN a ELSE b

\* Mutant of CopyBufferFuture_record: the early return for an empty region
\* list is missing.
CopyBufferFuture_record_always(regions, src_buffer, dst_buffer_inner) ==
    <<[src_buffer |-> src_buffer.raw,
       dst_buffer |-> dst_buffer_inner.raw,
       regions |-> IF regions.is_some THEN regions.value
                   ELSE <<[src_offset |-> src_buffer.offset,
                           dst_offset |-> dst_buffer_inner.offset,
                           size |-> Min(src_buffer.size, dst_buffer_inner.size)]>>]>>

\* CopyBufferFuture::record: the cmd_copy_buffer calls it records.
CopyBufferFuture_record(regions, src_buffer, dst_buffer_inner) ==
    IF regions.is_some /\ regions.value = <<>>
    THEN <<>>
    ELSE <<[src_buffer |-> src_buffer.raw,
            dst_buffer |-> dst_buffer_inner.raw,
            regions |-> IF regions.is_some THEN regions.value
                        ELSE <<[src_offset |-> src_buffer.offset,
                                dst_offset |-> dst_buffer_inner.offset,
                                size |-> Min(src_buffer.size, dst_buffer_inner.size)]>>]>>

\* copy_buffer(src, dst)
copy_buffer ==
    [src |-> "staging_buffer", dst |-> "dst_buffer",
     regions |-> [is_some |-> FALSE, value |-> <<>>]]

\* copy_buffer_regions(src, dst, regions)
copy_buffer_regions(regions) ==
    [src |-> "staging_buffer", dst |-> "dst_buffer",
     regions |-> [is_some |-> TRUE, value |-> regions]]

\* The four helpers have the same body, which allocates the destination
\* with create_upload_buffer_uninit; fn names the helper that was called.
\* The returned future has not been polled yet.
CreateBufferWith(fn, memory_model, usage, data) ==
    /\ buffer_pc = "idle"
    /\ LET dst == create_upload_buffer_uninit(1, memory_model, Len(data), usage)
           r == write_or_stage(dst, data)
       IN /\ dst_buffer' = r.dst_buffer
          /\ staging_buffer' = r.staging_buffer
          /\ created_buffers' =
                IF r.staging_buffer = NoBuffer
                THEN <<[usage |-> dst.usage, allocation |-> dst.allocation]>>
                ELSE <<[usage |-> dst.usage, allocation |-> dst.allocation],
                       [usage |-> r.staging_buffer.usage,
                        allocation |-> r.staging_buffer.allocation]>>
    /\ buffer_call' = [fn |-> fn, memory_model |-> memory_model,
                       usage |-> usage, data |-> data]
    /\ buffer_pc' = "created"
    /\ UNCHANGED <<copy_future, stage_context, copy_commands, retained>>
    /\ UNCHANGED <<pc, clusteringVarsRest, buildVars, frameVars, flushVars,
                   recordVars, pluginVars,
                   blasVars>>

\* create_device_buffer_with_writer: the writer fills the whole slice.
CreateDeviceBufferWithWriter ==
    \E memory_model \in MemoryModels, usage \in CallerUsages, data \in Datas :
        CreateBufferWith("create_device_buffer_with_writer", memory_model, usage, data)

CreateDeviceBufferWithData ==
    \E memory_model \in MemoryModels, usage \in CallerUsages, data \in Datas :
        CreateBufferWith("create_device_buffer_with_data", memory_model, usage, data)

CreateDynamicAssetBufferWithWriter ==
    \E memory_model \in MemoryModels, usage \in CallerUsages, data \in Datas :
        CreateBufferWith("create_dynamic_asset_buffer_with_writer", memory_model, usage, data)

CreateDynamicAssetBufferWithData ==
    \E memory_model \in MemoryModels, usage \in CallerUsages, data \in Datas :
        CreateBufferWith("create_dynamic_asset_buffer_with_data", memory_model, usage, data)

\* Resources a caller may hand to a copy: any size and offset, and any
\* access tracked from earlier commands.
CallerResources(handle) ==
    {[inner |-> [raw |-> handle, size |-> sz, offset |-> off],
      last_writer |-> w, last_readers |-> r] :
        sz \in 1..MaxSize, off \in 0..1,
        w \in {NoAccess, [stage |-> "COMPUTE_SHADER", access |-> "SHADER_WRITE"]},
        r \in {{}, {[stage |-> "VERTEX_INPUT", access |-> "VERTEX_ATTRIBUTE_READ"]}}}

\* Region lists a caller may pass.
CallerRegions ==
    UNION {[1..n -> {[src_offset |-> 0, dst_offset |-> 0, size |-> 1],
                     [src_offset |-> 1, dst_offset |-> 0, size |-> 1]}] :
              n \in 0..MaxRegions}

\* A caller awaits copy_buffer(src, dst).
CopyBuffer ==
    /\ buffer_pc = "idle"
    /\ \E s \in CallerResources(1), d \in CallerResources(2) :
          /\ staging_buffer' = s
          /\ dst_buffer' = d
    /\ copy_future' = copy_buffer
    /\ buffer_call' = [fn |-> "copy_buffer"]
    /\ buffer_pc' = "awaiting"
    /\ UNCHANGED <<stage_context, copy_commands, retained, created_buffers>>
    /\ UNCHANGED <<pc, clusteringVarsRest, buildVars, frameVars, flushVars,
                   recordVars, pluginVars,
                   blasVars>>

\* A caller awaits copy_buffer_regions(src, dst, regions).
CopyBufferRegions ==
    /\ buffer_pc = "idle"
    /\ \E s \in CallerResources(1), d \in CallerResources(2) :
          /\ staging_buffer' = s
          /\ dst_buffer' = d
    /\ \E regions \in CallerRegions : copy_future' = copy_buffer_regions(regions)
    /\ buffer_call' = [fn |-> "copy_buffer_regions"]
    /\ buffer_pc' = "awaiting"
    /\ UNCHANGED <<stage_context, copy_commands, retained, created_buffers>>
    /\ UNCHANGED <<pc, clusteringVarsRest, buildVars, frameVars, flushVars,
                   recordVars, pluginVars,
                   blasVars>>

\* The commands! block of a helper, up to the await: dst_buffer and
\* staging_buffer are rebound to RenderRes values and the copy is created.
BlockStart ==
    /\ buffer_pc = "created"
    /\ dst_buffer' = RenderRes_new(dst_buffer)
    /\ IF staging_buffer # NoBuffer
       THEN /\ staging_buffer' = RenderRes_new(staging_buffer)
            /\ copy_future' = copy_buffer
            /\ buffer_pc' = "awaiting"
       ELSE /\ buffer_pc' = "done"
            /\ UNCHANGED <<staging_buffer, copy_future>>
    /\ UNCHANGED <<buffer_call, stage_context, copy_commands, retained,
                   created_buffers>>
    /\ UNCHANGED <<pc, clusteringVarsRest, buildVars, frameVars, flushVars,
                   recordVars, pluginVars,
                   blasVars>>

\* The awaited copy registers its accesses.
CopyContext ==
    /\ buffer_pc = "awaiting"
    /\ LET c == CopyBufferFuture_context(staging_buffer, dst_buffer)
       IN /\ staging_buffer' = c.src
          /\ dst_buffer' = c.dst
          /\ stage_context' = [barriers |-> stage_context.barriers \cup c.barriers]
    /\ buffer_pc' = "polling"
    /\ UNCHANGED <<buffer_call, copy_future, copy_commands, retained,
                   created_buffers>>
    /\ UNCHANGED <<pc, clusteringVarsRest, buildVars, frameVars, flushVars,
                   recordVars, pluginVars,
                   blasVars>>

\* The awaited copy is polled: record returns Poll::Ready on every path.
CopyRecord ==
    /\ buffer_pc = "polling"
    /\ copy_commands' = copy_commands \o
          CopyBufferFuture_record(copy_future.regions, staging_buffer.inner,
                                  dst_buffer.inner)
    /\ buffer_pc' = "resolved"
    /\ UNCHANGED <<buffer_call, dst_buffer, staging_buffer, copy_future,
                   stage_context, retained, created_buffers>>
    /\ UNCHANGED <<pc, clusteringVarsRest, buildVars, frameVars, flushVars,
                   recordVars, pluginVars,
                   blasVars>>

\* The rest of the commands! block: retain!(staging_buffer) moves the
\* staging buffer into the retained values, and dst_buffer is the output.
BlockFinish ==
    /\ buffer_pc = "resolved"
    /\ buffer_call.fn \notin {"copy_buffer", "copy_buffer_regions"}
    /\ retained' = Append(retained, staging_buffer)
    /\ staging_buffer' = NoBuffer
    /\ buffer_pc' = "done"
    /\ UNCHANGED <<buffer_call, dst_buffer, copy_future, stage_context,
                   copy_commands, created_buffers>>
    /\ UNCHANGED <<pc, clusteringVarsRest, buildVars, frameVars, flushVars,
                   recordVars, pluginVars,
                   blasVars>>

BufferNext ==
    \/ CreateDeviceBufferWithWriter
    \/ CreateDeviceBufferWithData
    \/ CreateDynamicAssetBufferWithWriter
    \/ CreateDynamicAssetBufferWithData
    \/ CopyBuffer
    \/ CopyBufferRegions
    \/ BlockStart
    \/ CopyContext
    \/ CopyRecord
    \/ BlockFinish

\* One call of a buffer helper or one buffer copy, and the polls of the
\* future it returns.
BufferSpec == Init /\ [][BufferNext]_vars

-----------------------------------------------------------------------------
(* Buffer creation and buffer copies: properties                            *)

DeviceHelpers ==
    {"create_device_buffer_with_writer", "create_device_buffer_with_data"}

AssetHelpers ==
    {"create_dynamic_asset_buffer_with_writer",
     "create_dynamic_asset_buffer_with_data"}

\* The destination buffer of the helper that was called.
DstInner == IF buffer_pc = "created" THEN dst_buffer ELSE dst_buffer.inner

\* The staging buffer of the helper that was called, wherever it is now.
StagingInner ==
    IF buffer_pc = "created" THEN staging_buffer
    ELSE IF buffer_pc = "done" THEN retained[1].inner
    ELSE staging_buffer.inner

\* The helper found its destination mapped.
DstMappable == "MAPPED" \in created_buffers[1].allocation.flags

\* The one copy a helper records.
WholeCopy ==
    [src_buffer |-> 2, dst_buffer |-> 1,
     regions |-> <<[src_offset |-> 0, dst_offset |-> 0,
                    size |-> Len(buffer_call.data)]>>]

\* C25: create_device_buffer_with_writer / _with_data write the data in
\* place when the destination is directly mappable, with no staging buffer,
\* no copy command and nothing retained; otherwise they create exactly one
\* staging buffer, write the data into it, record exactly one copy from the
\* staging buffer to the destination and retain the staging buffer.
DeviceBufferWriteOrStage ==
    buffer_call.fn \in DeviceHelpers =>
        IF DstMappable
        THEN /\ Len(created_buffers) = 1
             /\ DstInner.contents = buffer_call.data
             /\ staging_buffer = NoBuffer
             /\ copy_future = NoFuture
             /\ copy_commands = <<>>
             /\ retained = <<>>
             /\ buffer_pc \in {"created", "done"}
        ELSE /\ Len(created_buffers) = 2
             /\ created_buffers[2].usage = {"TRANSFER_SRC"}
             /\ StagingInner.contents = buffer_call.data
             /\ \A i \in 1..DstInner.size : DstInner.contents[i] = 0
             /\ copy_commands = IF buffer_pc \in {"resolved", "done"}
                                THEN <<WholeCopy>> ELSE <<>>
             /\ IF buffer_pc = "done"
                THEN Len(retained) = 1 /\ retained[1].inner.raw = 2
                ELSE retained = <<>>

\* Witness of C25: on a Discrete device the future of
\* create_device_buffer_with_data has resolved with the staging buffer
\* retained.
DeviceBufferWriteOrStageWitness ==
    /\ buffer_call.fn = "create_device_buffer_with_data"
    /\ buffer_pc = "done"
    /\ ~ DstMappable
    /\ Len(retained) = 1
    /\ Len(buffer_call.data) = MaxSize

\* The single region that covers both buffers.
EntireRegion ==
    [src_offset |-> staging_buffer.inner.offset,
     dst_offset |-> dst_buffer.inner.offset,
     size |-> Min(staging_buffer.inner.size, dst_buffer.inner.size)]

\* C26: a buffer copy with regions = Some(empty) records no cmd_copy_buffer
\* and resolves on its first poll; with regions = None it records exactly one
\* copy of the single region of size min(src.size, dst.size) from the source
\* offset to the destination offset; with a non-empty list it records exactly
\* one copy with exactly the caller's regions.
CopyRegionsRecorded ==
    /\ buffer_pc \in {"awaiting", "polling"} => copy_commands = <<>>
    /\ buffer_pc = "resolved" =>
          LET regions == copy_future.regions
          IN IF regions.is_some /\ regions.value = <<>>
             THEN copy_commands = <<>>
             ELSE /\ Len(copy_commands) = 1
                  /\ copy_commands[1].src_buffer = staging_buffer.inner.raw
                  /\ copy_commands[1].dst_buffer = dst_buffer.inner.raw
                  /\ copy_commands[1].regions =
                        IF regions.is_some THEN regions.value
                        ELSE <<EntireRegion>>

\* Witness of C26: a copy with an empty region list has resolved.
CopyRegionsRecordedWitness ==
    /\ buffer_pc = "resolved"
    /\ copy_future.regions.is_some
    /\ copy_future.regions.value = <<>>
    /\ copy_commands = <<>>

\* The resource the copy read, wherever it is now.
CopySource == IF buffer_pc = "done" THEN retained[1] ELSE staging_buffer

\* C27: once a buffer copy has resolved, the tracked last writer of the
\* destination is (COPY, TRANSFER_WRITE) and the source has (COPY,
\* TRANSFER_READ) among its tracked readers; this includes the copy made by
\* create_device_buffer_with_data on a Discrete device.
CopyAccessTracked ==
    (buffer_pc \in {"polling", "resolved"} \/ (buffer_pc = "done" /\ retained # <<>>)) =>
        /\ dst_buffer.last_writer = [stage |-> "COPY", access |-> "TRANSFER_WRITE"]
        /\ [stage |-> "COPY", access |-> "TRANSFER_READ"] \in CopySource.last_readers

\* Witness of C27: the copy of create_device_buffer_with_data on a Discrete
\* device has resolved.
CopyAccessTrackedWitness ==
    /\ buffer_call.fn = "create_device_buffer_with_data"
    /\ buffer_call.memory_model = "Discrete"
    /\ buffer_pc = "done"
    /\ retained # <<>>

\* C28: the buffer of create_upload_buffer_uninit has the usage TRANSFER_DST
\* plus the caller's flags on every memory model; it is mapped on UMA, Bar
\* and ResizableBar and device-local and unmapped on Discrete.
UploadBufferUsage ==
    buffer_call.fn \in DeviceHelpers \cup AssetHelpers =>
        /\ created_buffers[1].usage = buffer_call.usage \cup {"TRANSFER_DST"}
        /\ created_buffers[1].allocation.usage = "AutoPreferDevice"
        /\ DstMappable <=> buffer_call.memory_model # "Discrete"

\* C29: create_dynamic_asset_buffer_with_writer / _with_data write directly
\* only on ResizableBar and UMA; on Bar and Discrete they create a staging
\* buffer, record a copy and retain the staging buffer, and the destination
\* is placed as create_dynamic_asset_buffer_uninit places it.
AssetBufferStaging ==
    buffer_call.fn \in AssetHelpers =>
        LET asset == create_dynamic_asset_buffer_uninit(
                         1, buffer_call.memory_model, Len(buffer_call.data),
                         buffer_call.usage)
        IN /\ created_buffers[1] =
                 [usage |-> asset.usage, allocation |-> asset.allocation]
           /\ Len(created_buffers) =
                 IF buffer_call.memory_model \in {"ResizableBar", "UMA"}
                 THEN 1 ELSE 2
           /\ buffer_pc = "done" =>
                 IF buffer_call.memory_model \in {"ResizableBar", "UMA"}
                 THEN copy_commands = <<>> /\ retained = <<>>
                 ELSE Len(copy_commands) = 1 /\ Len(retained) = 1

-----------------------------------------------------------------------------
(* Instance and device setup: src/plugin.rs                                 *)

\* Largest number of entries of InstanceLayers::enabled_layers.
MaxLayers == 2

\* Option::None of a resource.
None == [is_some |-> FALSE]

\* What the Vulkan entry enumerates: instance extensions, layers, and the
\* instance extensions a layer adds.
EntryInstanceExtensions == {"surface", "get_physical_device_properties2"}

EntryLayers == {"validation"}

LayerInstanceExtensions(layer) ==
    IF layer = "validation" THEN {"debug_utils"} ELSE {}

\* Extensions a physical device may enumerate.
DeviceExtensionNames == {"synchronization2", "swapchain"}

\* Names and layers a plugin may ask for.
ExtensionNames ==
    EntryInstanceExtensions \cup DeviceExtensionNames \cup {"debug_utils", "display"}

LayerNames == EntryLayers \cup {"api_dump"}

NotPromoted == [is_some |-> FALSE, version |-> 0]

PromotedToCore(v) == [is_some |-> TRUE, version |-> v]

\* The extension types T a plugin may name: NAME, PROMOTION_STATUS and
\* whether T::Device is not ().
ExtensionTypes ==
    {[NAME |-> "surface", PROMOTION_STATUS |-> NotPromoted, has_device |-> FALSE],
     [NAME |-> "debug_utils", PROMOTION_STATUS |-> NotPromoted, has_device |-> TRUE],
     [NAME |-> "get_physical_device_properties2",
      PROMOTION_STATUS |-> PromotedToCore(1), has_device |-> FALSE],
     [NAME |-> "synchronization2",
      PROMOTION_STATUS |-> PromotedToCore(3), has_device |-> TRUE],
     [NAME |-> "swapchain", PROMOTION_STATUS |-> NotPromoted, has_device |-> TRUE],
     [NAME |-> "display", PROMOTION_STATUS |-> NotPromoted, has_device |-> FALSE]}

synchronization2 ==
    CHOOSE T \in ExtensionTypes : T.NAME = "synchronization2"

\* RhyolitePlugin::api_version: the minor version of Vulkan 1.x.
ApiVersions == {2, 3}

\* HashMap::insert: the entry of the key is replaced.
MapInsert(m, k, v) ==
    {e \in m : e.name # k} \cup {[name |-> k, builder |-> v]}

\* A call returns value r in world w.
Return(w, r) == [world |-> w, result |-> r, panicked |-> FALSE]

\* A call panics with message msg in world w.
Panic(w, msg) == [world |-> w, result |-> msg, panicked |-> TRUE]

\* Mutant of InstanceExtensions_from_world: the test for the Instance is
\* missing.
InstanceExtensions_from_world_unchecked(w) ==
    Return([w EXCEPT !.InstanceExtensions =
                [is_some |-> TRUE,
                 available_extensions |-> EntryInstanceExtensions,
                 enabled_extensions |-> {}]], "Ok")

\* InstanceExtensions::from_world followed by insert_resource.
InstanceExtensions_from_world(w) ==
    IF w.Instance.is_some
    THEN Panic(w, "Instance extensions may only be added before the instance was created")
    ELSE Return([w EXCEPT !.InstanceExtensions =
                    [is_some |-> TRUE,
                     available_extensions |-> EntryInstanceExtensions,
                     enabled_extensions |-> {}]], "Ok")

\* Mutant of InstanceLayers_from_world: the test for the Instance is missing.
InstanceLayers_from_world_unchecked(w) ==
    Return([w EXCEPT !.InstanceLayers =
                [is_some |-> TRUE,
                 available_layers |-> EntryLayers,
                 enabled_layers |-> <<>>]], "Ok")

\* InstanceLayers::from_world followed by insert_resource.
InstanceLayers_from_world(w) ==
    IF w.Instance.is_some
    THEN Panic(w, "Instance layers may only be added before the instance was created")
    ELSE Return([w EXCEPT !.InstanceLayers =
                    [is_some |-> TRUE,
                     available_layers |-> EntryLayers,
                     enabled_layers |-> <<>>]], "Ok")

\* get_resource_mut::<InstanceExtensions>() or from_world and insert.
InstanceExtensions_get_or_insert(w) ==
    IF w.InstanceExtensions.is_some THEN Return(w, "Ok")
    ELSE InstanceExtensions_from_world(w)

InstanceLayers_get_or_insert(w) ==
    IF w.InstanceLayers.is_some THEN Return(w, "Ok")
    ELSE InstanceLayers_from_world(w)

\* DeviceExtensions::default()
DeviceExtensions_default ==
    [is_some |-> TRUE, available_extensions |-> {}, enabled_extensions |-> {},
     extension_builders |-> {}]

\* get_resource_or_insert_with(DeviceExtensions::default)
DeviceExtensions_get_or_insert(w) ==
    IF w.DeviceExtensions.is_some THEN w
    ELSE [w EXCEPT !.DeviceExtensions = DeviceExtensions_default]

add_device_extension(w, T) ==
    IF T.PROMOTION_STATUS.is_some /\ ~ w.Instance.is_some
    THEN Panic(w, "Requested resource Instance does not exist")
    ELSE IF /\ T.PROMOTION_STATUS.is_some
            /\ w.Instance.api_version >= T.PROMOTION_STATUS.version
    THEN Return(w, "Ok")
    ELSE IF ~ w.DeviceExtensions.is_some
    THEN Panic(w, "Device extensions may only be added after the instance was created")
    ELSE IF T.NAME \in w.DeviceExtensions.available_extensions
    THEN Return([w EXCEPT
                    !.DeviceExtensions.enabled_extensions = @ \cup {T.NAME},
                    !.DeviceExtensions.extension_builders = MapInsert(@, T.NAME, TRUE)],
                "Ok")
    ELSE Return(w, "Err")

add_instance_extension(w, T) ==
    IF w.Instance.is_some
    THEN Panic(w, "Instance extensions may only be added before the instance was created")
    ELSE IF T.PROMOTION_STATUS.is_some
    THEN Panic(w, "Requested resource Instance does not exist")
    ELSE
      LET r == InstanceExtensions_get_or_insert(w)
      IN IF r.panicked THEN r
         ELSE IF T.NAME \in r.world.InstanceExtensions.available_extensions
         THEN LET enabled == [r.world EXCEPT
                                 !.InstanceExtensions.enabled_extensions =
                                     MapInsert(@, T.NAME, TRUE)]
              IN IF T.has_device
                 THEN Return([DeviceExtensions_get_or_insert(enabled) EXCEPT
                                 !.DeviceExtensions.extension_builders =
                                     MapInsert(@, T.NAME, TRUE)], "Ok")
                 ELSE Return(enabled, "Ok")
         ELSE Return(r.world, "Err")

\* Mutant of add_device_extension_named: the builder entry is inserted
\* before the extension is looked up.
add_device_extension_named_insert_first(w, extension) ==
    IF ~ w.DeviceExtensions.is_some
    THEN Panic(w, "Device extensions may only be added after the instance was created")
    ELSE LET inserted == [w EXCEPT !.DeviceExtensions.extension_builders =
                                       MapInsert(@, extension, FALSE)]
         IN IF extension \in w.DeviceExtensions.available_extensions
            THEN Return([inserted EXCEPT
                            !.DeviceExtensions.enabled_extensions = @ \cup {extension}],
                        "Ok")
            ELSE Return(inserted, "Err")

add_device_extension_named(w, extension) ==
    IF ~ w.DeviceExtensions.is_some
    THEN Panic(w, "Device extensions may only be added after the instance was created")
    ELSE IF extension \in w.DeviceExtensions.available_extensions
    THEN Return([w EXCEPT
                    !.DeviceExtensions.enabled_extensions = @ \cup {extension},
                    !.DeviceExtensions.extension_builders = MapInsert(@, extension, FALSE)],
                "Ok")
    ELSE Return(w, "Err")

add_instance_extension_named(w, extension) ==
    LET r == InstanceExtensions_get_or_insert(w)
    IN IF r.panicked THEN r
       ELSE IF extension \in r.world.InstanceExtensions.available_extensions
       THEN Return([r.world EXCEPT
                       !.InstanceExtensions.enabled_extensions =
                           MapInsert(@, extension, FALSE)], "Ok")
       ELSE Return(r.world, "Err")

add_instance_layer(w, layer) ==
    LET l == InstanceLayers_get_or_insert(w)
    IN IF l.panicked THEN l
       ELSE IF layer \in l.world.InstanceLayers.available_layers
       THEN LET pushed == [l.world EXCEPT
                              !.InstanceLayers.enabled_layers = Append(@, layer)]
                r == InstanceExtensions_get_or_insert(pushed)
            IN IF r.panicked THEN r
               ELSE Return([r.world EXCEPT
                               !.InstanceExtensions.available_extensions =
                                   @ \cup LayerInstanceExtensions(layer)],
                           "Some")
       ELSE Return(l.world, "None")

\* RhyolitePlugin::build on a target other than macOS / iOS, up to
\* insert_resource(instance): the instance resources are removed, the
\* Instance is created from them and the device extensions are enumerated.
build_instance(w, api_version, device_extensions) ==
    LET enabled_extensions ==
            IF w.InstanceExtensions.is_some
            THEN w.InstanceExtensions.enabled_extensions ELSE {}
        enabled_layer_names ==
            IF w.InstanceLayers.is_some
            THEN w.InstanceLayers.enabled_layers ELSE <<>>
        d == DeviceExtensions_get_or_insert(w)
    IN [d EXCEPT
          !.InstanceExtensions = None,
          !.InstanceLayers = None,
          !.DeviceExtensions.available_extensions = device_extensions,
          !.Instance = [is_some |-> TRUE,
                        api_version |-> api_version,
                        enabled_extensions |-> enabled_extensions,
                        enabled_layer_names |-> enabled_layer_names]]

\* RhyolitePlugin::build: after the instance, synchronization2 is required
\* (.unwrap()) and the optional extensions, which this device does not
\* enumerate, are asked for and ignored (.ok()).
build(w, api_version, device_extensions) ==
    LET r == add_device_extension(
                 build_instance(w, api_version, device_extensions),
                 synchronization2)
    IN IF r.result = "Err"
       THEN Panic(r.world, "called Result::unwrap() on an Err value")
       ELSE r

\* A plugin's call is made: the world changes as the call says and a panic
\* ends the App.
Call(name, arg, r) ==
    /\ plugin_pc = "running"
    /\ world' = r.world
    /\ plugin_pc' = IF r.panicked THEN "panicked" ELSE "running"
    /\ call_result' = [call |-> name, arg |-> arg, result |-> r.result]
    /\ UNCHANGED <<pc, clusteringVarsRest, buildVars, frameVars, flushVars,
                   recordVars, bufferVars, blasVars>>

AddDeviceExtension ==
    \E T \in ExtensionTypes :
        Call("add_device_extension", T.NAME, add_device_extension(world, T))

AddInstanceExtension ==
    \E T \in ExtensionTypes :
        Call("add_instance_extension", T.NAME, add_instance_extension(world, T))

AddDeviceExtensionNamed ==
    \E extension \in ExtensionNames :
        Call("add_device_extension_named", extension,
             add_device_extension_named(world, extension))

AddInstanceExtensionNamed ==
    \E extension \in ExtensionNames :
        Call("add_instance_extension_named", extension,
             add_instance_extension_named(world, extension))

\* enabled_layers is a Vec: every successful call pushes one more entry.
AddInstanceLayer ==
    \E layer \in LayerNames :
        /\ world.InstanceLayers.is_some =>
              Len(world.InstanceLayers.enabled_layers) < MaxLayers
        /\ Call("add_instance_layer", layer, add_instance_layer(world, layer))

\* The App adds RhyolitePlugin once.
Build ==
    /\ ~ world.Instance.is_some
    /\ \E api_version \in ApiVersions, device_extensions \in SUBSET DeviceExtensionNames :
          Call("build", "RhyolitePlugin", build(world, api_version, device_extensions))

PluginNext ==
    \/ AddDeviceExtension
    \/ AddInstanceExtension
    \/ AddDeviceExtensionNamed
    \/ AddInstanceExtensionNamed
    \/ AddInstanceLayer
    \/ Build

\* Plugins call the RhyoliteApp methods in any order, before and after
\* RhyolitePlugin is built.
PluginSpec == Init /\ [][PluginNext]_vars

\* The calls that register an instance extension or an instance layer.
InstanceCalls ==
    {"add_instance_extension", "add_instance_extension_named", "add_instance_layer"}

DeviceCalls == {"add_device_extension", "add_device_extension_named"}

\* C31: before RhyolitePlugin::build has created the Instance, every call of
\* add_device_extension or add_device_extension_named, whatever calls were
\* made before it, panics with "Device extensions may only be added after
\* the instance was created", and no device extension is enabled while the
\* Instance does not exist.
DeviceCallsAbortBeforeBuild ==
    /\ [][(/\ ~ world.Instance.is_some
           /\ pluginVars' # pluginVars
           /\ call_result'.call \in DeviceCalls) =>
              /\ plugin_pc' = "panicked"
              /\ call_result'.result =
                    "Device extensions may only be added after the instance was created"
              /\ world' = world]_vars
    /\ [](~ world.Instance.is_some /\ world.DeviceExtensions.is_some =>
             world.DeviceExtensions.enabled_extensions = {})

\* What a world records as enabled and available; a resource that does not
\* exist records nothing, and from_world would enumerate the entry's sets.
EnabledDeviceExtensions(w) ==
    IF w.DeviceExtensions.is_some THEN w.DeviceExtensions.enabled_extensions ELSE {}

ExtensionBuilders(w) ==
    IF w.DeviceExtensions.is_some THEN w.DeviceExtensions.extension_builders ELSE {}

AvailableDeviceExtensions(w) ==
    IF w.DeviceExtensions.is_some THEN w.DeviceExtensions.available_extensions ELSE {}

EnabledInstanceExtensions(w) ==
    IF w.InstanceExtensions.is_some THEN w.InstanceExtensions.enabled_extensions ELSE {}

AvailableInstanceExtensions(w) ==
    IF w.InstanceExtensions.is_some THEN w.InstanceExtensions.available_extensions
    ELSE EntryInstanceExtensions

EnabledLayers(w) ==
    IF w.InstanceLayers.is_some THEN w.InstanceLayers.enabled_layers ELSE <<>>

\* The step is a call of one of the four methods that returned, and what it
\* asked for was not available when it was made.
UnavailableRequested ==
    /\ pluginVars' # pluginVars
    /\ plugin_pc' = "running"
    /\ \/ /\ call_result'.call \in DeviceCalls
          /\ call_result'.arg \notin AvailableDeviceExtensions(world)
       \/ /\ call_result'.call = "add_instance_extension_named"
          /\ call_result'.arg \notin AvailableInstanceExtensions(world)
       \/ /\ call_result'.call = "add_instance_layer"
          /\ call_result'.arg \notin EntryLayers

\* The step left every enabled set and the builders as they were.
NothingEnabled ==
    /\ EnabledDeviceExtensions(world') = EnabledDeviceExtensions(world)
    /\ ExtensionBuilders(world') = ExtensionBuilders(world)
    /\ EnabledInstanceExtensions(world') = EnabledInstanceExtensions(world)
    /\ EnabledLayers(world') = EnabledLayers(world)

\* Every extension recorded as enabled is available.
EnabledAreAvailable ==
    /\ EnabledDeviceExtensions(world) \subseteq AvailableDeviceExtensions(world)
    /\ {e.name : e \in EnabledInstanceExtensions(world)}
          \subseteq AvailableInstanceExtensions(world)
    /\ Range(EnabledLayers(world)) \subseteq EntryLayers

\* C32: a call of add_device_extension, add_device_extension_named,
\* add_instance_extension_named or add_instance_layer that asks for an
\* extension or layer outside the available set returns Err (None for a
\* layer) and leaves the enabled extensions, the builders and the enabled
\* layers as they were; every enabled extension is in the available set.
UnavailableIsError ==
    /\ [][UnavailableRequested =>
             /\ call_result'.result \in {"Err", "None"}
             /\ NothingEnabled]_vars
    /\ []EnabledAreAvailable

\* The extension type T is part of the core of the instance's API version.
InCore(T, w) ==
    /\ T.PROMOTION_STATUS.is_some
    /\ w.Instance.is_some
    /\ w.Instance.api_version >= T.PROMOTION_STATUS.version

\* C32 as amended: the same, except that add_device_extension for an
\* extension promoted to the core of the instance's API version returns Ok
\* and changes nothing, whether or not the device lists the extension.
UnavailableIsErrorUnlessCore ==
    /\ [][UnavailableRequested =>
             /\ NothingEnabled
             /\ IF /\ call_result'.call = "add_device_extension"
                   /\ \E T \in ExtensionTypes :
                         T.NAME = call_result'.arg /\ InCore(T, world)
                THEN call_result'.result = "Ok"
                ELSE call_result'.result \in {"Err", "None"}]_vars
    /\ []EnabledAreAvailable

\* Witness of C32: with a device extension enabled, a request for a device
\* extension that the device does not list has returned Err.
UnavailableIsErrorUnlessCoreWitness ==
    /\ plugin_pc = "running"
    /\ world.Instance.is_some
    /\ EnabledDeviceExtensions(world) # {}
    /\ call_result.call = "add_device_extension_named"
    /\ call_result.arg \notin AvailableDeviceExtensions(world)
    /\ call_result.result = "Err"

-----------------------------------------------------------------------------
(* The timeline dependencies and the reduction of the cluster graph         *)

\* The edges of the cluster graph that no other path of the cluster graph
\* replaces: the transitive reduction of a DAG.
ReductionEdges ==
    {e \in clustered_graph.edges :
        ~ Path(clustered_graph.edges \ {e}, e[1], e[2])}

\* Number of entries of cluster v's dependency list that name the timeline
\* of cluster u with stage ALL_COMMANDS.
DependencyCount(u, v) ==
    LET deps == queue_nodes[v].timeline_dependencies.dependencies
    IN Cardinality({i \in 1..Len(deps) :
                       deps[i] = [timeline |-> TimelineOf(u),
                                  stage |-> "ALL_COMMANDS"]})

\* The pairs of clusters joined by an installed dependency.
InstalledDependencies ==
    {p \in (1..Len(queue_nodes)) \X (1..Len(queue_nodes)) :
        DependencyCount(p[1], p[2]) >= 1}

\* C33: after build, cluster v's dependency list contains the timeline of
\* cluster u, with stage ALL_COMMANDS, exactly once if u -> v is an edge of
\* the transitive reduction of the cluster graph and not at all otherwise,
\* and contains nothing else; the host edges that build adds are exactly the
\* edges between the queue nodes of these pairs; and every edge of the
\* cluster graph is covered by a path of installed dependencies.
DependenciesAreReduction ==
    /\ [](pc = "built" =>
             /\ \A u, v \in 1..Len(queue_nodes) :
                   DependencyCount(u, v) =
                       IF <<u, v>> \in ReductionEdges THEN 1 ELSE 0
             /\ \A v \in 1..Len(queue_nodes) :
                   Len(queue_nodes[v].timeline_dependencies.dependencies) =
                       Cardinality({e \in ReductionEdges : e[2] = v})
             /\ \A e \in clustered_graph.edges :
                   Path(InstalledDependencies, e[1], e[2]))
    /\ [][(pc = "injected" /\ pc' = "built") =>
             dependency_flattened'.edges =
                 dependency_flattened.edges \cup
                     {<<queue_nodes[e[1]].queue_node, queue_nodes[e[2]].queue_node>> :
                         e \in ReductionEdges}]_vars

\* Witness of C33: a cluster graph with an edge that the reduction drops has
\* been wired.
DependenciesAreReductionWitness ==
    /\ pc = "built"
    /\ ReductionEdges # clustered_graph.edges
    /\ Cardinality(InstalledDependencies) = 2

-----------------------------------------------------------------------------
(* The per-stage graph and the edges of the cluster graph                   *)

\* The render-graph edges into node v whose source was emitted in the stage
\* with index i and lies in another cluster: the two nodes differ in colour
\* or in being standalone.
SameStageClusterEdges(v, i) ==
    {e \in render_subgraph.edges :
        /\ e[2] = v
        /\ e[1] \in Emitted
        /\ node_stage_indexes[e[1]] = i
        /\ get_node_info(e[1]) # get_node_info(v)}

\* C34: every render-graph edge (u, v) whose endpoints are emitted in the
\* same stage but placed in different clusters is an edge of the per-stage
\* graph from u's cluster key to v's cluster key, from the moment v is
\* emitted until the stage is sealed (the case of a standalone and a
\* non-standalone system of one colour included); and for every render-graph
\* edge (u, v) the stage of u is not later than the stage of v.
StageEdgesInTinyGraph ==
    /\ [](\A v \in Emitted :
             node_stage_indexes[v] = stage_index =>
                 \A e \in SameStageClusterEdges(v, stage_index) :
                     <<get_node_info(e[1]), get_node_info(v)>> \in tiny_graph)
    /\ [][\A v \in Emitted' \ Emitted :
             \A e \in SameStageClusterEdges(v, stage_index) :
                 <<get_node_info(e[1]), get_node_info(v)>> \in
                     tiny_graph \cup TinyGraphUpdate(v)]_vars
    /\ [](\A e \in render_subgraph.edges :
             e[1] \in Emitted /\ e[2] \in Emitted =>
                 node_stage_indexes[e[1]] <= node_stage_indexes[e[2]])

-----------------------------------------------------------------------------
(* record drives the future to completion                                   *)

\* The results of the polls made so far.
PollResults == [i \in 1..Len(future_log) |-> future_log[i].result]

\* C35: record polls again after every Pending, returns exactly when the
\* future first yields Ready, never polls the future after Ready, and
\* returns whenever the future yields Pending only finitely many times; the
\* status it returns carries the output and the retained values, the
\* command buffer's timeline semaphore, and the command buffer's
\* signal_value as wait_value.
RecordDrivesFuture ==
    /\ [][future_log' # future_log =>
             /\ record_pc = "polling"
             /\ "Ready" \notin Range(PollResults)
             /\ Len(future_log') = Len(future_log) + 1
             /\ record_pc' = IF future_log'[Len(future_log')].result = "Pending"
                             THEN "polling" ELSE "returned"]_vars
    /\ [](record_pc = "polling" => ENABLED RecordPoll)
    /\ [](record_pc = "returned" <=>
             /\ future_log # <<>>
             /\ PollResults[Len(future_log)] = "Ready")
    /\ [](\A i \in 1..(Len(future_log) - 1) : PollResults[i] = "Pending")
    /\ [](record_pc = "returned" =>
             /\ submission_status.return_value = "output"
             /\ submission_status.retained_values = "retained"
             /\ submission_status.timeline_semaphore =
                    command_buffer.timeline_semaphore
             /\ submission_status.wait_value = command_buffer.signal_value)
    /\ (record_pc = "polling" ~> record_pc = "returned")

\* Witness of C35: record has returned after two Pending yields and one
\* Ready, for a command buffer whose signal value is not the first.
RecordDrivesFutureWitness ==
    /\ record_pc = "returned"
    /\ PollResults = <<"Pending", "Pending", "Ready">>
    /\ command_buffer.signal_value = MaxSignalValue
    /\ submission_status.timeline_semaphore = "timeline_b"

-----------------------------------------------------------------------------
(* The pending barriers when record returns                                 *)

\* C39: when record returns, no barrier registered by the future is left
\* pending in the command buffer's context; the barriers registered during
\* the poll that yields Ready have been recorded or cleared.
NoBarrierLeftOnReturn ==
    record_pc = "returned" => ~ has_barriers(command_buffer.future_ctx)

-----------------------------------------------------------------------------
(* The render subgraph keeps the order of the render systems                *)

\* The render systems of the schedule.
RenderSystems == {n \in Range(dependency_flattened.nodes) : systems[n].render}

\* C36: once every non-render node has been removed, the render subgraph
\* contains the render systems and nothing else, a render system v is
\* reachable from a render system u in the subgraph if and only if it is
\* reachable from u in the flattened dependency graph, and the subgraph is
\* acyclic (the flattened dependency graph is).
RenderSubgraphKeepsOrder ==
    pc = "extracted" =>
        /\ Range(render_subgraph.nodes) = RenderSystems
        /\ Len(render_subgraph.nodes) = Cardinality(RenderSystems)
        /\ render_subgraph.edges \subseteq RenderSystems \X RenderSystems
        /\ \A u, v \in RenderSystems :
              Path(render_subgraph.edges, u, v) <=>
                  Path(dependency_flattened.edges, u, v)
        /\ IsAcyclic(dependency_flattened.edges)
        /\ IsAcyclic(render_subgraph.edges)

\* Witness of C36: two render systems are ordered only through a non-render
\* system, and the subgraph has the edge that replaces it.
RenderSubgraphKeepsOrderWitness ==
    /\ pc = "extracted"
    /\ \E u, v \in RenderSystems :
          /\ <<u, v>> \in render_subgraph.edges
          /\ <<u, v>> \notin dependency_flattened.edges
          /\ \E w \in Range(dependency_flattened.nodes) \ RenderSystems :
                /\ <<u, w>> \in dependency_flattened.edges
                /\ <<w, v>> \in dependency_flattened.edges

-----------------------------------------------------------------------------
(* graph_clustering loses and duplicates no system                          *)

\* Number of places a node holds in the node lists of the clusters.
RECURSIVE ClusterPlaces(_, _)
ClusterPlaces(n, k) ==
    IF k = 0 THEN 0
    ELSE ClusterPlaces(n, k - 1) +
         Cardinality({i \in 1..Len(clustered_graph_info[k].nodes) :
                         clustered_graph_info[k].nodes[i] = n})

\* Number of places a node holds in the two heaps.
HeapPlaces(n) ==
    Cardinality({i \in 1..Len(heap) : heap[i] = n}) +
    Cardinality({i \in 1..Len(heap_next_stage) : heap_next_stage[i] = n})

\* C38: every node of the input render graph is emitted exactly once (an
\* emitted node is never queued again and no node is queued twice), holds
\* exactly one place in the node lists of the returned clusters, which
\* together contain exactly the input nodes; and the cluster graph has as
\* many nodes as there are cluster descriptors.
NoSystemLostOrDuplicated ==
    /\ pc = "clustering" =>
          \A n \in RenderNodes :
              HeapPlaces(n) <= (IF n \in Emitted THEN 0 ELSE 1)
    /\ Clustered =>
          /\ Emitted = RenderNodes
          /\ \A n \in RenderNodes :
                ClusterPlaces(n, Len(clustered_graph_info)) = 1
          /\ UNION {Range(clustered_graph_info[k].nodes) :
                        k \in 1..Len(clustered_graph_info)} = RenderNodes
          /\ \A k \in 1..Len(clustered_graph_info) :
                clustered_graph_info[k].nodes # <<>>
          /\ DOMAIN node_to_clustered_nodes = RenderNodes
          /\ \A n \in RenderNodes :
                n \in Range(clustered_graph_info[node_to_clustered_nodes[n]].nodes)
          /\ Cardinality(clustered_graph.nodes) = Len(clustered_graph_info)

\* Witness of C38: three systems have been clustered, two of them into one
\* cluster.
NoSystemLostOrDuplicatedWitness ==
    /\ pc = "clustered"
    /\ Cardinality(RenderNodes) = 3
    /\ Len(clustered_graph_info) = 2
    /\ \E k \in 1..2 : Len(clustered_graph_info[k].nodes) = 2

-----------------------------------------------------------------------------
(* build_blas_system (src/crates/rtx/src/blas.rs)                           *)

\* The orders in which a query may yield the entities of S.
QueryOrders(S) == {o \in [1..Cardinality(S) -> S] : Range(o) = S}

\* entities.iter(): the rows (Entity, T::QueryData, Option<&mut BLAS>) of the
\* spawned entities, in the order o.
query_iter(w, o) ==
    [i \in 1..Len(o) |->
        [entity |-> o[i],
         data |-> [entity |-> o[i], geometry_count |-> w[o[i]].geometry_count],
         blas |-> w[o[i]].blas]]

\* T::geometries(params, data, commands): the geometries of one entity.
geometries_of(data) ==
    [i \in 1..data.geometry_count |-> [owner |-> data.entity, index |-> i]]

\* The first loop of the system: one build info per entity that is not
\* skipped, and the geometries of all of them in one vector.
RECURSIVE collect_infos(_, _, _, _)
collect_infos(rows, i, should_update, acc) ==
    IF i > Len(rows) THEN acc
    ELSE LET row == rows[i]
         IN IF row.blas.is_some /\ row.entity \notin should_update
            THEN collect_infos(rows, i + 1, should_update, acc)
            ELSE collect_infos(rows, i + 1, should_update,
                    [infos |-> Append(acc.infos,
                        [mode |-> IF row.blas.is_some /\ row.blas.accel_struct.allow_update
                                  THEN "UPDATE" ELSE "BUILD",
                         src_acceleration_structure |-> row.blas,
                         geometry_count |-> Len(geometries_of(row.data))]),
                     geometries |-> acc.geometries \o geometries_of(row.data)])

\* cur_geometry_index when the second loop reaches info k.
RECURSIVE geometry_index(_, _)
geometry_index(infos, k) ==
    IF k <= 1 THEN 0
    ELSE geometry_index(infos, k - 1) + infos[k - 1].geometry_count

\* info.p_geometries with info.geometry_count: the geometries info k is built
\* from.
info_geometries(collected, k) ==
    SubSeq(collected.geometries,
           geometry_index(collected.infos, k) + 1,
           geometry_index(collected.infos, k) + collected.infos[k].geometry_count)

\* The second loop of the system: infos.iter_mut().zip(entities.iter().map(
\* |(e, _, _)| e)) pairs info k with the k-th entity of the query, and the
\* acceleration structure that info k is built into is pushed with that
\* entity.
built_accel_structs_of(collected, rows, allow_update) ==
    [k \in 1..Min(Len(collected.infos), Len(rows)) |->
        [entity |-> rows[k].entity,
         accel_struct |-> [geometries |-> info_geometries(collected, k),
                           allow_update |-> allow_update]]]

\* The build infos handed to build_acceleration_structure.
resolved_infos(collected) ==
    [k \in 1..Len(collected.infos) |->
        [mode |-> collected.infos[k].mode,
         src_acceleration_structure |-> collected.infos[k].src_acceleration_structure,
         geometries |-> info_geometries(collected, k)]]

\* commands.entity(entity).insert(BLAS { accel_struct: blas }) for every pair
\* of a finished task.
insert_commands(task) ==
    [k \in 1..Len(task.built_accel_structs) |->
        [entity |-> task.built_accel_structs[k].entity,
         insert |-> [is_some |-> TRUE,
                     accel_struct |-> task.built_accel_structs[k].accel_struct]]]

\* The world after the queued commands have been applied in order.
RECURSIVE apply_commands(_, _, _)
apply_commands(w, cmds, i) ==
    IF i > Len(cmds) THEN w
    ELSE apply_commands([w EXCEPT ![cmds[i].entity].blas = cmds[i].insert],
                        cmds, i + 1)

\* The application spawns an entity that the builder's query matches.
SpawnEntity ==
    /\ blas_pc = "idle"
    /\ \E e \in Entities, count \in 1..MaxGeometries :
          /\ ~ blas_entities[e].alive
          /\ blas_entities' =
                [blas_entities EXCEPT ![e] =
                    [alive |-> TRUE, geometry_count |-> count,
                     blas |-> [is_some |-> FALSE]]]
    /\ UNCHANGED <<pc, clusteringVarsRest, buildVars, frameVars, flushVars,
                   recordVars, bufferVars, pluginVars,
                   blas_pc, blas_task, blas_commands, blas_run>>

\* The GPU completes the build: task.is_finished() becomes true.
TaskFinishes ==
    /\ blas_task.is_some
    /\ ~ blas_task.finished
    /\ blas_task' = [blas_task EXCEPT !.finished = TRUE]
    /\ UNCHANGED <<pc, clusteringVarsRest, buildVars, frameVars, flushVars,
                   recordVars, bufferVars, pluginVars,
                   blas_pc, blas_entities, blas_commands, blas_run>>

\* One run of build_blas_system.  The query sees the world as it is when the
\* system starts; the inserts of the finished task go to the Commands queue.
BuildBlasSystem ==
    /\ blas_pc = "idle"
    /\ blas_pc' = "ran"
    /\ \E order \in QueryOrders({e \in Entities : blas_entities[e].alive}),
          should_update \in SUBSET Entities,
          allow_update \in BOOLEAN :
          LET rows == query_iter(blas_entities, order)
              collected == collect_infos(rows, 1, should_update,
                                         [infos |-> <<>>, geometries |-> <<>>])
              cmds == IF blas_task.is_some THEN insert_commands(blas_task)
                      ELSE <<>>
          IN IF blas_task.is_some /\ ~ blas_task.finished
             THEN /\ blas_run' = [outcome |-> "waiting", infos |-> <<>>,
                                  should_update |-> {}]
                  /\ UNCHANGED <<blas_task, blas_commands>>
             ELSE /\ blas_commands' = cmds
                  /\ IF rows = <<>>
                     THEN /\ blas_task' = NoTask
                          /\ blas_run' = [outcome |-> "no_entities", infos |-> <<>>,
                                          should_update |-> {}]
                     ELSE IF collected.infos = <<>>
                     THEN /\ blas_task' = NoTask
                          /\ blas_run' = [outcome |-> "no_infos", infos |-> <<>>,
                                          should_update |-> should_update]
                     ELSE /\ blas_task' =
                                [is_some |-> TRUE, finished |-> FALSE,
                                 built_accel_structs |->
                                     built_accel_structs_of(collected, rows,
                                                            allow_update)]
                          /\ blas_run' = [outcome |-> "started",
                                          infos |-> resolved_infos(collected),
                                          should_update |-> should_update]
    /\ UNCHANGED <<pc, clusteringVarsRest, buildVars, frameVars, flushVars,
                   recordVars, bufferVars, pluginVars, blas_entities>>

\* The schedule applies the system's Commands after the system has returned.
ApplyDeferred ==
    /\ blas_pc = "ran"
    /\ blas_pc' = "idle"
    /\ blas_entities' = apply_commands(blas_entities, blas_commands, 1)
    /\ blas_commands' = <<>>
    /\ UNCHANGED <<pc, clusteringVarsRest, buildVars, frameVars, flushVars,
                   recordVars, bufferVars, pluginVars, blas_task, blas_run>>

BlasNext ==
    \/ SpawnEntity
    \/ TaskFinishes
    \/ BuildBlasSystem
    \/ ApplyDeferred

\* A world with a BLAS builder: entities are spawned, the system runs every
\* frame, and the GPU finishes the tasks.
BlasSpec == Init /\ [][BlasNext]_vars

-----------------------------------------------------------------------------
(* Properties of build_blas_system                                          *)

\* The entities whose geometries the build infos of the last run contain.
IncludedEntities ==
    {g.owner : g \in UNION {Range(blas_run.infos[k].geometries) :
                               k \in 1..Len(blas_run.infos)}}

\* The world with the BLAS components of the finished task inserted.
WorldWithInserts == apply_commands(blas_entities, blas_commands, 1)

\* C37: at most one build task is in flight: while a started task has not
\* finished, a run of the system records nothing, queues nothing and leaves
\* the task as it is; the BLAS components of a finished task are inserted
\* before a new task is started, so that an entity that has a BLAS then is
\* included in the new build only if should_update returned true for it; and
\* a build info has mode UPDATE only if the entity's BLAS was built with
\* ALLOW_UPDATE.
OneBuildInFlight ==
    /\ [][(/\ blas_pc = "idle"
           /\ blas_pc' = "ran"
           /\ blas_task.is_some
           /\ ~ blas_task.finished) =>
              /\ blas_task' = blas_task
              /\ blas_commands' = <<>>
              /\ blas_run'.outcome = "waiting"
              /\ blas_run'.infos = <<>>]_vars
    /\ [](blas_pc = "ran" /\ blas_run.outcome = "started" =>
             \A e \in IncludedEntities :
                 WorldWithInserts[e].blas.is_some => e \in blas_run.should_update)
    /\ [](\A k \in 1..Len(blas_run.infos) :
             blas_run.infos[k].mode = "UPDATE" =>
                 /\ blas_run.infos[k].src_acceleration_structure.is_some
                 /\ blas_run.infos[k].src_acceleration_structure.accel_struct.allow_update)

\* C40: every acceleration structure of the build task is paired with the
\* entity whose geometries it is built from, also when some of the queried
\* entities are skipped.
BuiltForOwnEntity ==
    blas_task.is_some =>
        \A k \in 1..Len(blas_task.built_accel_structs) :
            LET pair == blas_task.built_accel_structs[k]
            IN /\ pair.accel_struct.geometries # <<>>
               /\ \A g \in Range(pair.accel_struct.geometries) :
                     g.owner = pair.entity

====
